---- MODULE Spec2Model ----
(***************************************************************************)
(* Calculation engine of the open-power-control-simulator editor:          *)
(*   - buildCalculationGraph / collectCalcNodes (src/src/Sidebar.tsx)      *)
(*     flatten a diagram, with its referenced diagrams, into CalcNodes     *)
(*     and Nets;                                                            *)
(*   - the node behaviours calculateNode / finishCalculation               *)
(*     (src/src/nodeTypes.tsx);                                            *)
(*   - calculate (src/src/Sidebar.tsx), the damped Newton iteration;       *)
(*   - the Calculate button of App (src/src/nodeTypes.tsx).                *)
(* Numbers are exact rationals <<p, q>> (q > 0, lowest terms); <<0, 0>>    *)
(* is NaN.  Floating point rounding is not modelled.                       *)
(***************************************************************************)
EXTENDS Integers, Sequences, FiniteSets, TLC

(***************************************************************************)
(* Bounds of the explored inputs.                                          *)
(***************************************************************************)
\* largest number of edges drawn in the main diagram of the build family
MaxEdges == 2
\* number of clicks on Calculate that are followed
MaxSolves == 2
\* passes of the solver loop that are followed in exact arithmetic
MaxIterations == 3
\* the residual norms 2^0 .. 2^(-MaxLevel) drawn by the abstract loop
MaxLevel == 5

(***************************************************************************)
(* State of the editor while Calculate is handled.                         *)
(***************************************************************************)
VARIABLES
  project,     \* the Project: [currentGraphId, graphs]
  pc,          \* "idle", "iterating", "converged", "aborted" or "failed"
  calcNodes,   \* CalcNodes of the running solve, by flattened id
  nets,        \* CalcNets of the running solve
  x,           \* the unknown vector of calculate, indexed by net id + 1
  alpha,       \* damping factor of calculate
  n,           \* loop counter of calculate
  lastError,   \* squared residual norm of the previous iteration, or Undef
  iterations,  \* history: iterations of the loop body run by this solve
  solves,      \* history: clicks on Calculate so far
  before,      \* history: the project when Calculate was clicked
  last         \* history: how the previous solve ended and its final x

vars == <<project, pc, calcNodes, nets, x, alpha, n, lastError, iterations,
          solves, before, last>>

(***************************************************************************)
(* Rational arithmetic (JavaScript numbers, without rounding).              *)
(***************************************************************************)
Abs(i) == IF i < 0 THEN -i ELSE i

Gcd(a, b) ==
  LET G[p \in Nat \X Nat] == IF p[2] = 0 THEN p[1] ELSE G[<<p[2], p[1] % p[2]>>]
  IN  G[<<a, b>>]

NaN == <<0, 0>>

IsNaN(a) == a[2] = 0

Rat(p, q) ==
  IF q = 0 THEN NaN
  ELSE LET g == Gcd(Abs(p), Abs(q))
           s == IF q < 0 THEN -1 ELSE 1
       IN  <<(s * p) \div g, (s * q) \div g>>

RInt(i) == <<i, 1>>

RZero == RInt(0)

ROne == RInt(1)

RAdd(a, b) ==
  IF IsNaN(a) \/ IsNaN(b) THEN NaN ELSE Rat(a[1] * b[2] + b[1] * a[2], a[2] * b[2])

RNeg(a) == IF IsNaN(a) THEN NaN ELSE <<-a[1], a[2]>>

RSub(a, b) == RAdd(a, RNeg(b))

RMul(a, b) ==
  IF IsNaN(a) \/ IsNaN(b) THEN NaN ELSE Rat(a[1] * b[1], a[2] * b[2])

\* x / 0 is modelled as NaN (the only division by zero of the program is 0 / 0)
RDiv(a, b) ==
  IF IsNaN(a) \/ IsNaN(b) \/ b[1] = 0 THEN NaN ELSE Rat(a[1] * b[2], a[2] * b[1])

\* a < b; every comparison with NaN is false
RLess(a, b) == ~IsNaN(a) /\ ~IsNaN(b) /\ a[1] * b[2] < b[1] * a[2]

RECURSIVE RSum(_)
RSum(s) == IF s = <<>> THEN RZero ELSE RAdd(Head(s), RSum(Tail(s)))

(***************************************************************************)
(* Sequences used as JavaScript arrays and insertion-ordered objects.      *)
(***************************************************************************)
RECURSIVE IndexOf(_, _, _)
\* first index i >= from with Key(s[i]) = k, or 0
IndexOf(s, k, from) ==
  IF from > Len(s) THEN 0
  ELSE IF s[from].key = k THEN from
  ELSE IndexOf(s, k, from + 1)

Has(s, k) == IndexOf(s, k, 1) # 0

Get(s, k) == s[IndexOf(s, k, 1)].val

\* obj[k] = v : overwrite in place, or append a new key
Put(s, k, v) ==
  LET i == IndexOf(s, k, 1)
  IN  IF i = 0 THEN Append(s, [key |-> k, val |-> v])
      ELSE [s EXCEPT ![i] = [key |-> k, val |-> v]]

SeqToSet(s) == {s[i] : i \in 1..Len(s)}

\* Array.prototype.filter, the predicate given as the set of elements it keeps
FilterSeq(s, kept) ==
  LET F[i \in 0..Len(s)] ==
        IF i = 0 THEN <<>>
        ELSE IF s[i] \in kept THEN Append(F[i - 1], s[i]) ELSE F[i - 1]
  IN  F[Len(s)]

(***************************************************************************)
(* Data model: Project, Graph, GraphNode, GraphEdge.                       *)
(***************************************************************************)
\* inputName === null
Null == "<null>"

\* a variable that holds undefined
Undef == "undefined"

NoPorts == [ids |-> <<>>, nextId |-> 0]

\* NumberNodeData
NumberData(value, locked, inputName) ==
  [type |-> "number", value |-> value, locked |-> locked, inputName |-> inputName,
   graphId |-> 0, topPorts |-> NoPorts, bottomPorts |-> NoPorts]

\* ArithmeticNodeData
ArithmeticData(top, bottom) ==
  [type |-> "arithmetic", value |-> RZero, locked |-> FALSE, inputName |-> Null,
   graphId |-> 0, topPorts |-> top, bottomPorts |-> bottom]

\* GraphReferenceNodeData
GraphReferenceData(graphId) ==
  [type |-> "graphReference", value |-> RZero, locked |-> FALSE, inputName |-> Null,
   graphId |-> graphId, topPorts |-> NoPorts, bottomPorts |-> NoPorts]

GraphNode(id, type, posX, posY, data) ==
  [id |-> id, type |-> type, position |-> [x |-> posX, y |-> posY], data |-> data]

GraphEdge(source, sourceHandle, target, targetHandle) ==
  [source |-> source, sourceHandle |-> sourceHandle,
   target |-> target, targetHandle |-> targetHandle]

Graph(id, nodes, edges) == [id |-> id, nodes |-> nodes, edges |-> edges]

\* Project.getGraph(id): the graph of that id, or Undefined
Undefined == [id |-> -1, nodes |-> <<>>, edges |-> <<>>]

RECURSIVE FindGraph(_, _, _)
FindGraph(graphs, id, i) ==
  IF i > Len(graphs) THEN Undefined
  ELSE IF graphs[i].id = id THEN graphs[i]
  ELSE FindGraph(graphs, id, i + 1)

getGraph(proj, id) == FindGraph(proj.graphs, id, 1)

isConnectionNode(node) ==
  node.type = "number" /\ node.data.type = "number" /\ node.data.inputName # Null

(***************************************************************************)
(* getConnectionNodes (src/src/nodeTypes.tsx:55-75).                      *)
(***************************************************************************)
RECURSIVE InsertByY(_, _)
\* stable insertion of node into a list sorted by position.y
InsertByY(sorted, node) ==
  IF sorted = <<>> THEN <<node>>
  ELSE IF node.position.y < Head(sorted).position.y THEN <<node>> \o sorted
  ELSE <<Head(sorted)>> \o InsertByY(Tail(sorted), node)

RECURSIVE SortByY(_)
SortByY(s) ==
  IF s = <<>> THEN <<>> ELSE InsertByY(SortByY(SubSeq(s, 1, Len(s) - 1)), s[Len(s)])

Min(S) == CHOOSE m \in S : \A o \in S : m <= o

Max(S) == CHOOSE m \in S : \A o \in S : m >= o

\* getConnectionNodes returning the left column only
getConnectionNodesLeftOnly(graph) ==
  LET connectionNodes == FilterSeq(graph.nodes,
                                   {node \in SeqToSet(graph.nodes) : isConnectionNode(node)})
  IN  IF Len(connectionNodes) = 0 THEN <<<<>>, <<>>>>
      ELSE LET xs   == {connectionNodes[i].position.x : i \in 1..Len(connectionNodes)}
               Left == {node \in SeqToSet(connectionNodes) :
                          2 * node.position.x <= Max(xs) + Min(xs)}
           IN  <<SortByY(FilterSeq(connectionNodes, Left)), <<>>>>

getConnectionNodesUnsorted(graph) ==
  LET connectionNodes == FilterSeq(graph.nodes,
                                   {node \in SeqToSet(graph.nodes) : isConnectionNode(node)})
  IN  IF Len(connectionNodes) = 0 THEN <<<<>>, <<>>>>
      ELSE LET xs   == {connectionNodes[i].position.x : i \in 1..Len(connectionNodes)}
               Left  == {node \in SeqToSet(connectionNodes) :
                           2 * node.position.x <= Max(xs) + Min(xs)}
               Right == {node \in SeqToSet(connectionNodes) :
                           2 * node.position.x > Max(xs) + Min(xs)}
           IN  <<FilterSeq(connectionNodes, Left), FilterSeq(connectionNodes, Right)>>

getConnectionNodes(graph) ==
  LET connectionNodes == FilterSeq(graph.nodes,
                                   {node \in SeqToSet(graph.nodes) : isConnectionNode(node)})
  IN  IF Len(connectionNodes) = 0 THEN <<<<>>, <<>>>>
      ELSE LET xs   == {connectionNodes[i].position.x : i \in 1..Len(connectionNodes)}
               minX == Min(xs)
               maxX == Max(xs)
               \* x <= (maxX + minX) / 2
               Left  == {node \in SeqToSet(connectionNodes) : 2 * node.position.x <= maxX + minX}
               Right == {node \in SeqToSet(connectionNodes) : 2 * node.position.x > maxX + minX}
           IN  <<SortByY(FilterSeq(connectionNodes, Left)),
                 SortByY(FilterSeq(connectionNodes, Right))>>

(***************************************************************************)
(* CalcNode, CalcNet and the building context (src/src/Sidebar.tsx).       *)
(* calcNodes and connections are insertion-ordered objects: sequences of   *)
(* [key, val].  A CalcNet's ports are <<CalcNode id, port>> pairs.         *)
(***************************************************************************)
NodeTypes == {"number", "plus", "mul", "graphReference"}

\* a CalcNode that keeps the local id of its node as its id
CalcNodeLocalId(id, graphNodeId, type, data) ==
  [id |-> graphNodeId, graphNodeId |-> graphNodeId, type |-> type, data |-> data,
   connectedNetsByPort |-> <<>>, initialValuesByPort |-> <<>>]

CalcNode(id, graphNodeId, type, data) ==
  [id |-> id, graphNodeId |-> graphNodeId, type |-> type, data |-> data,
   connectedNetsByPort |-> <<>>, initialValuesByPort |-> <<>>]

\* a CalcNet that starts at 0 whatever value it is given
CalcNetFromZero(id, value) == [id |-> id, value |-> RZero, ports |-> <<>>]

CalcNet(id, value) == [id |-> id, value |-> value, ports |-> <<>>]

CalculationGraphBuildingContext(proj) ==
  [project |-> proj, calcNodes |-> <<>>, connections |-> <<>>,
   parentGraphIds |-> {}, threw |-> FALSE]

Throw(ctx) == [ctx EXCEPT !.threw = TRUE]

addConnectionImpl(connections, sourceNode, sourcePort, targetNode, targetPort) ==
  LET byPort == IF Has(connections, sourceNode) THEN Get(connections, sourceNode) ELSE <<>>
      list   == IF Has(byPort, sourcePort) THEN Get(byPort, sourcePort) ELSE <<>>
  IN  Put(connections, sourceNode,
          Put(byPort, sourcePort, Append(list, [nodeId |-> targetNode, port |-> targetPort])))

\* a registration in one direction only
addConnectionOneWay(connections, sourceNode, sourcePort, targetNode, targetPort) ==
  addConnectionImpl(connections, sourceNode, sourcePort, targetNode, targetPort)

addConnection(connections, sourceNode, sourcePort, targetNode, targetPort) ==
  addConnectionImpl(
    addConnectionImpl(connections, sourceNode, sourcePort, targetNode, targetPort),
    targetNode, targetPort, sourceNode, sourcePort)

\* nodeById[nodeId] of collectCalcNodes: the last node of that id
NodeById(graph, nodeId) ==
  LET F[i \in 0..Len(graph.nodes)] ==
        IF i = 0 THEN 0 ELSE IF graph.nodes[i].id = nodeId THEN i ELSE F[i - 1]
  IN  F[Len(graph.nodes)]

\* mapHandle without the rule for terminal b of a number node
mapHandleKeepingB(graph, nodeIdPrefix, nodeId, handle) ==
  IF NodeById(graph, nodeId) = 0 THEN <<FALSE, "", "">>
  ELSE <<TRUE, nodeIdPrefix \o nodeId, handle>>

\* mapHandle: <<ok, CalcNode id, port>>; ok is FALSE when reading node.type throws
mapHandle(graph, nodeIdPrefix, nodeId, handle) ==
  LET i == NodeById(graph, nodeId)
  IN  IF i = 0 THEN <<FALSE, "", "">>
      ELSE IF graph.nodes[i].type = "number" /\ handle = "b"
           THEN <<TRUE, nodeIdPrefix \o nodeId, "a">>
      ELSE <<TRUE, nodeIdPrefix \o nodeId, handle>>

RECURSIVE ConnectReference(_, _, _, _)
\* the forEach over the connection nodes of a referenced graph
ConnectReference(connections, conNodes, nodeIdPrefix, node) ==
  IF conNodes = <<>> THEN connections
  ELSE ConnectReference(
         addConnection(connections,
                       nodeIdPrefix \o node.id, Head(conNodes).id,
                       (nodeIdPrefix \o node.id \o ".") \o Head(conNodes).id, "a"),
         Tail(conNodes), nodeIdPrefix, node)

RECURSIVE FillConnections(_, _, _, _)
\* the loop over graph.edges, from edge i on
FillConnections(nodeIdPrefix, graph, i, ctx) ==
  IF ctx.threw \/ i > Len(graph.edges) THEN ctx
  ELSE LET edge == graph.edges[i]
           s == mapHandle(graph, nodeIdPrefix, edge.source, edge.sourceHandle)
           t == mapHandle(graph, nodeIdPrefix, edge.target, edge.targetHandle)
       IN  IF ~s[1] \/ ~t[1] THEN Throw(ctx)
           ELSE FillConnections(nodeIdPrefix, graph, i + 1,
                  [ctx EXCEPT !.connections = addConnection(@, s[2], s[3], t[2], t[3])])

RECURSIVE collectCalcNodes(_, _, _)
RECURSIVE CollectNodes(_, _, _, _)
\* the loop over graph.nodes, from node i on
CollectNodes(nodeIdPrefix, graph, i, ctx) ==
  IF ctx.threw \/ i > Len(graph.nodes) THEN ctx
  ELSE LET node == graph.nodes[i]
           afterReference ==
             IF node.data.type = "graphReference"
             THEN LET referencedGraph == getGraph(ctx.project, node.data.graphId)
                      inner == collectCalcNodes(nodeIdPrefix \o node.id \o ".",
                                                referencedGraph, ctx)
                      conNodes == getConnectionNodes(referencedGraph)
                  IN  IF inner.threw THEN inner
                      ELSE [inner EXCEPT !.connections =
                              ConnectReference(@, conNodes[1] \o conNodes[2],
                                               nodeIdPrefix, node)]
             ELSE ctx
           calcNode ==
             [CalcNode(nodeIdPrefix \o node.id, node.id, node.type, node.data)
                EXCEPT !.initialValuesByPort =
                  IF node.data.type = "number"
                  THEN Put(<<>>, "a", node.data.value) ELSE <<>>]
       IN  IF afterReference.threw THEN afterReference
           ELSE IF node.type \notin NodeTypes THEN Throw(afterReference)
           ELSE CollectNodes(nodeIdPrefix, graph, i + 1,
                  [afterReference EXCEPT !.calcNodes =
                     Put(@, nodeIdPrefix \o node.id, calcNode)])

\* collectCalcNodes leaving the diagram in the in-progress set when it returns
collectCalcNodesKeepingParent(nodeIdPrefix, graph, ctx) ==
  IF ctx.threw THEN ctx
  ELSE IF graph = Undefined THEN Throw(ctx)
  ELSE IF graph.id \in ctx.parentGraphIds THEN ctx
  ELSE FillConnections(nodeIdPrefix, graph, 1,
         CollectNodes(nodeIdPrefix, graph, 1,
                      [ctx EXCEPT !.parentGraphIds = @ \cup {graph.id}]))

collectCalcNodes(nodeIdPrefix, graph, ctx) ==
  IF ctx.threw THEN ctx
  ELSE IF graph = Undefined THEN Throw(ctx)
  ELSE IF graph.id \in ctx.parentGraphIds THEN ctx
  ELSE LET entered == [ctx EXCEPT !.parentGraphIds = @ \cup {graph.id}]
           done == FillConnections(nodeIdPrefix, graph, 1,
                     CollectNodes(nodeIdPrefix, graph, 1, entered))
       IN  IF done.threw THEN done
           ELSE [done EXCEPT !.parentGraphIds = @ \ {graph.id}]

RECURSIVE PushAll(_, _)
PushAll(border, targets) ==
  IF targets = <<>> THEN border
  ELSE PushAll(Append(border, [nodeId |-> Head(targets).nodeId, port |-> Head(targets).port]),
               Tail(targets))

\* ctx.connections[nodeId]?.[port] ?? []
ConnectionsOf(connections, nodeId, port) ==
  IF Has(connections, nodeId) /\ Has(Get(connections, nodeId), port)
  THEN Get(Get(connections, nodeId), port) ELSE <<>>

RECURSIVE CollectNet(_, _)
\* the while (border.length > 0) loop; st = [calcNodes, net, border, seen,
\* initialValueCount, initialValueSum, threw]
CollectNet(connections, st) ==
  IF st.threw \/ st.border = <<>> THEN st
  ELSE LET top  == st.border[Len(st.border)]
           rest == SubSeq(st.border, 1, Len(st.border) - 1)
           pair == <<top.nodeId, top.port>>
       IN  IF pair \in st.seen THEN CollectNet(connections, [st EXCEPT !.border = rest])
           ELSE IF ~Has(st.calcNodes, top.nodeId)
                THEN [st EXCEPT !.threw = TRUE]
           ELSE LET node == Get(st.calcNodes, top.nodeId)
                    seeds == Has(node.initialValuesByPort, top.port)
                IN  CollectNet(connections,
                      [st EXCEPT
                         !.border = PushAll(rest, ConnectionsOf(connections, top.nodeId, top.port)),
                         !.seen = @ \cup {pair},
                         !.calcNodes = Put(@, top.nodeId,
                            [node EXCEPT !.connectedNetsByPort = Put(@, top.port, st.net.id)]),
                         !.net = [@ EXCEPT !.ports = Append(@, pair)],
                         !.initialValueCount = IF seeds THEN @ + 1 ELSE @,
                         !.initialValueSum =
                            IF seeds THEN RAdd(@, Get(node.initialValuesByPort, top.port)) ELSE @])

RECURSIVE CreateNets(_, _, _, _)
\* the two nested loops over ctx.connections, from port j of entry i on;
\* acc = [calcNodes, nets, threw]
CreateNets(connections, i, j, acc) ==
  IF acc.threw \/ i > Len(connections) THEN acc
  ELSE IF j > Len(connections[i].val) THEN CreateNets(connections, i + 1, 1, acc)
  ELSE LET startNodeId == connections[i].key
           startPort   == connections[i].val[j].key
       IN  IF ~Has(acc.calcNodes, startNodeId) THEN [acc EXCEPT !.threw = TRUE]
           ELSE IF Has(Get(acc.calcNodes, startNodeId).connectedNetsByPort, startPort)
                THEN CreateNets(connections, i, j + 1, acc)
           ELSE LET st == CollectNet(connections,
                            [calcNodes |-> acc.calcNodes,
                             net |-> CalcNet(Len(acc.nets), ROne),
                             border |-> <<[nodeId |-> startNodeId, port |-> startPort]>>,
                             seen |-> {},
                             initialValueCount |-> 0,
                             initialValueSum |-> RZero,
                             threw |-> FALSE])
                    net == IF st.initialValueCount > 0
                           THEN [st.net EXCEPT !.value =
                                   RDiv(st.initialValueSum, RInt(st.initialValueCount))]
                           ELSE st.net
                IN  IF st.threw THEN [acc EXCEPT !.threw = TRUE]
                    ELSE CreateNets(connections, i, j + 1,
                           [acc EXCEPT !.calcNodes = st.calcNodes,
                                       !.nets = Append(@, net)])

\* buildCalculationGraph numbering its nets from a counter that outlives the call
buildCalculationGraphCounting(proj, inputGraph) ==
  CHOOSE result \in
    { IF ctx.threw THEN [threw |-> TRUE, calcNodes |-> <<>>, nets |-> <<>>]
      ELSE CHOOSE built \in
             { IF acc.threw THEN [threw |-> TRUE, calcNodes |-> <<>>, nets |-> <<>>]
               ELSE [threw |-> FALSE, calcNodes |-> acc.calcNodes,
                     nets |-> [i \in 1..Len(acc.nets) |->
                                 [acc.nets[i] EXCEPT !.id = @ + solves]]] :
               acc \in { CreateNets(ctx.connections, 1, 1,
                                    [calcNodes |-> ctx.calcNodes, nets |-> <<>>,
                                     threw |-> FALSE]) } } : TRUE :
      ctx \in { collectCalcNodes("", inputGraph, CalculationGraphBuildingContext(proj)) } } :
    TRUE

\* [threw, calcNodes, nets]; an exception leaves no result
buildCalculationGraph(proj, inputGraph) ==
  CHOOSE result \in
    { IF ctx.threw THEN [threw |-> TRUE, calcNodes |-> <<>>, nets |-> <<>>]
      ELSE CHOOSE built \in
             { IF acc.threw THEN [threw |-> TRUE, calcNodes |-> <<>>, nets |-> <<>>]
               ELSE [threw |-> FALSE, calcNodes |-> acc.calcNodes, nets |-> acc.nets] :
               acc \in { CreateNets(ctx.connections, 1, 1,
                                    [calcNodes |-> ctx.calcNodes, nets |-> <<>>,
                                     threw |-> FALSE]) } } : TRUE :
      ctx \in { collectCalcNodes("", inputGraph, CalculationGraphBuildingContext(proj)) } } :
    TRUE

(***************************************************************************)
(* Node behaviours (src/src/nodeTypes.tsx): calculateNode returns the      *)
(* equations it adds, each [row, value]: the Jacobian row filled by func   *)
(* and the residual func returns.  ctx.node.ports of nodeTypes.tsx is the  *)
(* port-to-net map connectedNetsByPort of the CalcNode.                    *)
(***************************************************************************)
\* new Array(nets.length).fill(0)
ZeroRow(netList) == [i \in 1..Len(netList) |-> RZero]

HasPort(node, portId) == Has(node.connectedNetsByPort, portId)

\* ctx.node.ports[portId].net
PortNet(node, netList, portId) == netList[Get(node.connectedNetsByPort, portId) + 1]

\* calculateNode of "number" adding the equation of a locked Source once per
\* terminal a and b, whether or not terminal b is recorded
calculateNodeNumberPerTerminal(node, data, netList) ==
  LET pinned(port) ==
        [row |-> [ZeroRow(netList) EXCEPT ![PortNet(node, netList, port).id + 1] = ROne],
         value |-> RSub(PortNet(node, netList, port).value, data.value)]
  IN  IF data.locked
      THEN (IF HasPort(node, "a") THEN <<pinned("a"), pinned("a")>> ELSE <<>>)
      ELSE <<>>

\* calculateNode of "number" adding the equation of an unlocked Source as soon
\* as port a is recorded, with port a read for terminal b
calculateNodeNumberUnlockedAtA(node, data, netList) ==
  LET pinned(port) ==
        [row |-> [ZeroRow(netList) EXCEPT ![PortNet(node, netList, port).id + 1] = ROne],
         value |-> RSub(PortNet(node, netList, port).value, data.value)]
  IN  IF data.locked
      THEN (IF HasPort(node, "a") THEN <<pinned("a")>> ELSE <<>>)
           \o (IF HasPort(node, "b") THEN <<pinned("b")>> ELSE <<>>)
      ELSE IF HasPort(node, "a")
           THEN LET a == PortNet(node, netList, "a")
                IN  <<[row |-> [ZeroRow(netList) EXCEPT ![a.id + 1] = RNeg(ROne)],
                       value |-> RSub(a.value, a.value)]>>
           ELSE <<>>

\* calculateNode of "number" with the residual of a locked Source negated
calculateNodeNumberFlipped(node, data, netList) ==
  LET pinned(port) ==
        [row |-> [ZeroRow(netList) EXCEPT ![PortNet(node, netList, port).id + 1] = ROne],
         value |-> RSub(data.value, PortNet(node, netList, port).value)]
  IN  IF data.locked
      THEN (IF HasPort(node, "a") THEN <<pinned("a")>> ELSE <<>>)
           \o (IF HasPort(node, "b") THEN <<pinned("b")>> ELSE <<>>)
      ELSE IF HasPort(node, "a") /\ HasPort(node, "b")
           THEN LET a == PortNet(node, netList, "a")
                    b == PortNet(node, netList, "b")
                IN  <<[row |-> [[ZeroRow(netList) EXCEPT ![a.id + 1] = ROne]
                                  EXCEPT ![b.id + 1] = RNeg(ROne)],
                       value |-> RSub(a.value, b.value)]>>
           ELSE <<>>

\* calculateNode of "number" (nodeTypes.tsx:166-192)
calculateNodeNumber(node, data, netList) ==
  LET pinned(port) ==
        [row |-> [ZeroRow(netList) EXCEPT ![PortNet(node, netList, port).id + 1] = ROne],
         value |-> RSub(PortNet(node, netList, port).value, data.value)]
  IN  IF data.locked
      THEN (IF HasPort(node, "a") THEN <<pinned("a")>> ELSE <<>>)
           \o (IF HasPort(node, "b") THEN <<pinned("b")>> ELSE <<>>)
      ELSE IF HasPort(node, "a") /\ HasPort(node, "b")
           THEN LET a == PortNet(node, netList, "a")
                    b == PortNet(node, netList, "b")
                IN  <<[row |-> [[ZeroRow(netList) EXCEPT ![a.id + 1] = ROne]
                                  EXCEPT ![b.id + 1] = RNeg(ROne)],
                       value |-> RSub(a.value, b.value)]>>
           ELSE <<>>

RECURSIVE AddToRow(_, _, _, _, _)
\* portIds.forEach: row[port.net.id] += delta for every port that has a net
AddToRow(row, node, netList, portIds, delta) ==
  IF portIds = <<>> THEN row
  ELSE AddToRow(
         IF HasPort(node, Head(portIds))
         THEN [row EXCEPT ![PortNet(node, netList, Head(portIds)).id + 1] = RAdd(@, delta)]
         ELSE row,
         node, netList, Tail(portIds), delta)

\* calculateNode of "plus" (nodeTypes.tsx:271-287)
calculateNodePlus(node, data, netList) ==
  <<[row |-> AddToRow(AddToRow(ZeroRow(netList), node, netList,
                               node.data.topPorts.ids, ROne),
                      node, netList, node.data.bottomPorts.ids, RNeg(ROne)),
     value |-> RZero]>>

RECURSIVE ConnectedNets(_, _, _)
\* portIds.flatMap(port ? [port.net] : [])
ConnectedNets(node, netList, portIds) ==
  IF portIds = <<>> THEN <<>>
  ELSE (IF HasPort(node, Head(portIds))
        THEN <<PortNet(node, netList, Head(portIds))>> ELSE <<>>)
       \o ConnectedNets(node, netList, Tail(portIds))

RECURSIVE Product(_)
\* netList.reduce((a, b) => a * b.value, 1)
Product(netList) ==
  IF netList = <<>> THEN ROne
  ELSE RMul(Product(SubSeq(netList, 1, Len(netList) - 1)), netList[Len(netList)].value)

RECURSIVE AddQuotients(_, _, _, _)
\* someNets.forEach(net => row[net.id] += sign * product / net.value)
AddQuotients(row, someNets, product, sign) ==
  IF someNets = <<>> THEN row
  ELSE AddQuotients(
         [row EXCEPT ![Head(someNets).id + 1] =
            RAdd(@, RMul(sign, RDiv(product, Head(someNets).value)))],
         Tail(someNets), product, sign)

\* calculateNode of "mul" adding each Net's quotient once, however many ports
\* of a row the Net is at
calculateNodeMulOncePerNet(node, data, netList) ==
  LET topNets       == ConnectedNets(node, netList, node.data.topPorts.ids)
      bottomNets    == ConnectedNets(node, netList, node.data.bottomPorts.ids)
      topProduct    == Product(topNets)
      bottomProduct == Product(bottomNets)
  IN  IF Len(topNets) > 0 /\ Len(bottomNets) > 0
      THEN <<[row |-> [c \in 1..Len(netList) |->
                         RSub(IF \E i \in 1..Len(topNets) : topNets[i].id + 1 = c
                              THEN RDiv(topProduct, netList[c].value) ELSE RZero,
                              IF \E i \in 1..Len(bottomNets) : bottomNets[i].id + 1 = c
                              THEN RDiv(bottomProduct, netList[c].value) ELSE RZero)],
              value |-> RSub(topProduct, bottomProduct)]>>
      ELSE <<>>

\* calculateNode of "mul" (nodeTypes.tsx:308-330)
calculateNodeMul(node, data, netList) ==
  LET topNets       == ConnectedNets(node, netList, node.data.topPorts.ids)
      bottomNets    == ConnectedNets(node, netList, node.data.bottomPorts.ids)
      topProduct    == Product(topNets)
      bottomProduct == Product(bottomNets)
  IN  IF Len(topNets) > 0 /\ Len(bottomNets) > 0
      THEN <<[row |-> AddQuotients(AddQuotients(ZeroRow(netList), topNets, topProduct, ROne),
                                   bottomNets, bottomProduct, RNeg(ROne)),
              value |-> RSub(topProduct, bottomProduct)]>>
      ELSE <<>>

\* nodeTypeInfos[type].calculateNode; a graphReference adds no equation
calculateNode(node, netList) ==
  CASE node.type = "number" -> calculateNodeNumber(node, node.data, netList)
    [] node.type = "plus"   -> calculateNodePlus(node, node.data, netList)
    [] node.type = "mul"    -> calculateNodeMul(node, node.data, netList)
    [] OTHER                -> <<>>

\* finishCalculation of "number" without the test of data.locked
finishCalculationNumberIgnoringLock(node, data, netList) ==
  IF HasPort(node, "a") THEN [data EXCEPT !.value = PortNet(node, netList, "a").value]
  ELSE IF HasPort(node, "b") THEN [data EXCEPT !.value = PortNet(node, netList, "b").value]
  ELSE data

\* finishCalculation of "number" (nodeTypes.tsx:193-204)
finishCalculationNumber(node, data, netList) ==
  IF data.locked THEN data
  ELSE IF HasPort(node, "a") THEN [data EXCEPT !.value = PortNet(node, netList, "a").value]
  ELSE IF HasPort(node, "b") THEN [data EXCEPT !.value = PortNet(node, netList, "b").value]
  ELSE data

\* nodeTypeInfos[type].finishCalculation; the other behaviours return data
finishCalculation(type, node, data, netList) ==
  IF type = "number" THEN finishCalculationNumber(node, data, netList) ELSE data

RECURSIVE Assemble(_, _, _)
\* the loop over Object.values(calcNodes) of calculate (Sidebar.tsx:364-375)
Assemble(nodeList, i, netList) ==
  IF i > Len(nodeList) THEN <<>>
  ELSE calculateNode(nodeList[i].val, netList) \o Assemble(nodeList, i + 1, netList)

(***************************************************************************)
(* solve(A, B) of ml-matrix as calculate uses it (Sidebar.tsx:378-383):    *)
(* LU for a square A, which throws for a singular one; QR least squares    *)
(* otherwise, which throws for a rank deficient A (always when there are   *)
(* fewer equations than nets).  Without equations the step has no rows     *)
(* and x.add(d) throws.  With no net at all the outcome depends on the     *)
(* library version: both outcomes are kept.                                *)
(***************************************************************************)
Minor(M, j) ==
  [i \in 1..(Len(M) - 1) |->
     [c \in 1..(Len(M) - 1) |-> M[i + 1][IF c < j THEN c ELSE c + 1]]]

RECURSIVE Det(_)
Det(M) ==
  IF Len(M) = 0 THEN ROne
  ELSE IF Len(M) = 1 THEN M[1][1]
  ELSE LET Term[j \in 0..Len(M)] ==
             IF j = 0 THEN RZero
             ELSE RAdd(Term[j - 1],
                       RMul(IF j % 2 = 1 THEN M[1][j] ELSE RNeg(M[1][j]),
                            Det(Minor(M, j))))
       IN  Term[Len(M)]

\* M with column j replaced by the vector b
ReplaceColumn(M, j, b) ==
  [i \in 1..Len(M) |-> [c \in 1..Len(M) |-> IF c = j THEN b[i] ELSE M[i][c]]]

\* the solution of the square system M d = b with Det(M) = det # 0
Cramer(M, b, det) == [j \in 1..Len(M) |-> RDiv(Det(ReplaceColumn(M, j, b)), det)]

\* transpose(A) * A and transpose(A) * b
NormalMatrix(A, k) ==
  [i \in 1..k |-> [j \in 1..k |-> RSum([r \in 1..Len(A) |-> RMul(A[r][i], A[r][j])])]]

NormalVector(A, b, k) ==
  [i \in 1..k |-> RSum([r \in 1..Len(A) |-> RMul(A[r][i], b[r])])]

\* the possible results [ok, d] of solving A d = b for k nets
solve(A, b, k) ==
  IF k = 0 THEN {[ok |-> FALSE, d |-> <<>>], [ok |-> TRUE, d |-> <<>>]}
  ELSE IF Len(A) < k THEN {[ok |-> FALSE, d |-> <<>>]}
  ELSE LET M   == IF Len(A) = k THEN A ELSE NormalMatrix(A, k)
           v   == IF Len(A) = k THEN b ELSE NormalVector(A, b, k)
           det == Det(M)
       IN  IF det = RZero THEN {[ok |-> FALSE, d |-> <<>>]}
           ELSE {[ok |-> TRUE, d |-> Cramer(M, v, det)]}

(***************************************************************************)
(* The loop control of calculate (Sidebar.tsx:340-342, 404-416).  Norms    *)
(* are kept squared (a square root is not rational): e > lastError * 0.99  *)
(* is e^2 > lastError^2 * 0.9801 and d.norm() < 1e-8 is d^2 < 1e-16.       *)
(* alpha is a decimal fraction [digits, scale]: the number with those      *)
(* decimal digits (lowest first) divided by 10^scale.                      *)
(***************************************************************************)
\* threshold digits of d.norm() < 1e-8
StepTolerance == 8

\* n > 100
IterationCap == 100

AlphaOne == [digits |-> <<1>>, scale |-> 0]

RECURSIVE TimesDigit(_, _, _)
\* the digits of (number * m + carry), for a digit m
TimesDigit(digits, m, carry) ==
  IF digits = <<>> THEN (IF carry = 0 THEN <<>> ELSE <<carry>>)
  ELSE <<(Head(digits) * m + carry) % 10>>
       \o TimesDigit(Tail(digits), m, (Head(digits) * m + carry) \div 10)

\* alpha *= 0.9
Shrink(a) == [digits |-> TimesDigit(a.digits, 9, 0), scale |-> a.scale + 1]

\* alpha < 0.1 : the numerator has fewer digits than 10^(scale - 1)
BelowTenth(a) == Len(a.digits) < a.scale

RECURSIVE DigitsValue(_)
DigitsValue(digits) ==
  IF digits = <<>> THEN 0 ELSE Head(digits) + 10 * DigitsValue(Tail(digits))

RECURSIVE Pow10(_)
Pow10(k) == IF k = 0 THEN 1 ELSE 10 * Pow10(k - 1)

\* alpha as a rational, for d.scale({ scale: alpha })
AlphaRat(a) == Rat(DigitsValue(a.digits), Pow10(a.scale))

RECURSIVE BelowPow10(_, _)
\* r < 10^(-k), for r >= 0
BelowPow10(r, k) ==
  IF IsNaN(r) THEN FALSE
  ELSE IF k = 0 THEN r[1] < r[2]
  ELSE IF r[1] > r[2] \div 10 THEN FALSE
  ELSE BelowPow10(<<r[1] * 10, r[2]>>, k - 1)

\* d.norm() < 1e-8, from the squared norm
StepIsSmall(dSq) == BelowPow10(dSq, 2 * StepTolerance)

\* e > lastError * 0.99, from the squared norms
ErrorStalls(eSq, lastSq) ==
  /\ ~IsNaN(eSq)
  /\ ~IsNaN(lastSq)
  /\ lastSq[1] * 9801 * eSq[2] < eSq[1] * 10000 * lastSq[2]

\* the loop control shrinking alpha also at e = lastError * 0.99
LoopControlShrinkAtEqual(a, count, lastSq, eSq, dSmall) ==
  LET stalls == /\ lastSq # Undef
                /\ ~IsNaN(eSq)
                /\ ~IsNaN(lastSq)
                /\ lastSq[1] * 9801 * eSq[2] <= eSq[1] * 10000 * lastSq[2]
      shrunk == IF stalls THEN Shrink(a) ELSE a
  IN  IF dSmall
      THEN [pc |-> "converged", alpha |-> shrunk, n |-> count, lastError |-> lastSq]
      ELSE IF BelowTenth(shrunk) \/ count > IterationCap
      THEN [pc |-> "aborted", alpha |-> shrunk, n |-> count, lastError |-> lastSq]
      ELSE [pc |-> "iterating", alpha |-> shrunk, n |-> count + 1, lastError |-> eSq]

\* the loop control with the abort test before the convergence test
LoopControlAbortFirst(a, count, lastSq, eSq, dSmall) ==
  LET shrunk == IF lastSq # Undef /\ ErrorStalls(eSq, lastSq) THEN Shrink(a) ELSE a
  IN  IF BelowTenth(shrunk) \/ count > IterationCap
      THEN [pc |-> "aborted", alpha |-> shrunk, n |-> count, lastError |-> lastSq]
      ELSE IF dSmall
      THEN [pc |-> "converged", alpha |-> shrunk, n |-> count, lastError |-> lastSq]
      ELSE [pc |-> "iterating", alpha |-> shrunk, n |-> count + 1, lastError |-> eSq]

\* the loop control without the test of the iteration counter
LoopControlNoCap(a, count, lastSq, eSq, dSmall) ==
  LET shrunk == IF lastSq # Undef /\ ErrorStalls(eSq, lastSq) THEN Shrink(a) ELSE a
  IN  IF dSmall
      THEN [pc |-> "converged", alpha |-> shrunk, n |-> count, lastError |-> lastSq]
      ELSE IF BelowTenth(shrunk)
      THEN [pc |-> "aborted", alpha |-> shrunk, n |-> count, lastError |-> lastSq]
      ELSE [pc |-> "iterating", alpha |-> shrunk, n |-> count + 1, lastError |-> eSq]

\* the loop control with an undefined lastError read as 0
LoopControlShrinkAtFirst(a, count, lastSq, eSq, dSmall) ==
  LET prev   == IF lastSq = Undef THEN RZero ELSE lastSq
      shrunk == IF ErrorStalls(eSq, prev) THEN Shrink(a) ELSE a
  IN  IF dSmall
      THEN [pc |-> "converged", alpha |-> shrunk, n |-> count, lastError |-> lastSq]
      ELSE IF BelowTenth(shrunk) \/ count > IterationCap
      THEN [pc |-> "aborted", alpha |-> shrunk, n |-> count, lastError |-> lastSq]
      ELSE [pc |-> "iterating", alpha |-> shrunk, n |-> count + 1, lastError |-> eSq]

\* the loop control testing alpha < 0.1 on the value before the shrink
LoopControlAbortLate(a, count, lastSq, eSq, dSmall) ==
  LET shrunk == IF lastSq # Undef /\ ErrorStalls(eSq, lastSq) THEN Shrink(a) ELSE a
  IN  IF dSmall
      THEN [pc |-> "converged", alpha |-> shrunk, n |-> count, lastError |-> lastSq]
      ELSE IF BelowTenth(a) \/ count > IterationCap
      THEN [pc |-> "aborted", alpha |-> shrunk, n |-> count, lastError |-> lastSq]
      ELSE [pc |-> "iterating", alpha |-> shrunk, n |-> count + 1, lastError |-> eSq]

\* lines 404-416: the next [pc, alpha, n, lastError]
LoopControl(a, count, lastSq, eSq, dSmall) ==
  LET shrunk == IF lastSq # Undef /\ ErrorStalls(eSq, lastSq) THEN Shrink(a) ELSE a
  IN  IF dSmall
      THEN [pc |-> "converged", alpha |-> shrunk, n |-> count, lastError |-> lastSq]
      ELSE IF BelowTenth(shrunk) \/ count > IterationCap
      THEN [pc |-> "aborted", alpha |-> shrunk, n |-> count, lastError |-> lastSq]
      ELSE [pc |-> "iterating", alpha |-> shrunk, n |-> count + 1, lastError |-> eSq]

\* configured values of the Source nodes of the explored projects
Values == {2, 3}

currentGraph(proj) == getGraph(proj, proj.currentGraphId)

(***************************************************************************)
(* Stored projects of the build family: a main diagram (id 1) with two     *)
(* Sources, a Summation node and a reference to diagram 2; diagram 2 with  *)
(* a connection node, a locked Source and, when cyclic, a reference back   *)
(* to diagram 1.  The main diagram has up to MaxEdges edges between the    *)
(* endpoints below; "ghost" is the id of no node.                          *)
(***************************************************************************)
Endpoints ==
  << <<"s1", "a">>, <<"s1", "b">>, <<"s2", "a">>, <<"s2", "b">>,
     <<"ar", "top_0">>, <<"ar", "bottom_0">>, <<"r", "c1">>, <<"ghost", "a">> >>

EndpointPairs == {p \in (1..Len(Endpoints)) \X (1..Len(Endpoints)) : p[1] <= p[2]}

RECURSIVE SubsetsUpTo(_, _)
\* the subsets of S with at most k elements
SubsetsUpTo(S, k) ==
  IF k = 0 THEN {{}}
  ELSE LET smaller == SubsetsUpTo(S, k - 1)
       IN  smaller \cup {t \cup {e} : t \in smaller, e \in S}

RECURSIVE EdgesOf(_)
\* the edges of a set of endpoint pairs, in lexicographic order
EdgesOf(pairs) ==
  IF pairs = {} THEN <<>>
  ELSE LET first == CHOOSE p \in pairs :
                      \A q \in pairs : p[1] < q[1] \/ (p[1] = q[1] /\ p[2] <= q[2])
       IN  <<GraphEdge(Endpoints[first[1]][1], Endpoints[first[1]][2],
                       Endpoints[first[2]][1], Endpoints[first[2]][2])>>
           \o EdgesOf(pairs \ {first})

ArithmeticPorts ==
  ArithmeticData([ids |-> <<"top_0", "top_1">>, nextId |-> 2],
                 [ids |-> <<"bottom_0", "bottom_1">>, nextId |-> 2])

ReferencedGraph(cyclic) ==
  Graph(2,
        <<GraphNode("c1", "number", 0, 50, NumberData(RInt(3), FALSE, "in")),
          GraphNode("t", "number", 50, 0, NumberData(RInt(2), TRUE, Null))>>
        \o (IF cyclic
            THEN <<GraphNode("rb", "graphReference", 50, 50, GraphReferenceData(1))>>
            ELSE <<>>),
        <<GraphEdge("c1", "a", "t", "b")>>)

BuildProject(pairs, cyclic, inputName, value) ==
  [currentGraphId |-> 1,
   graphs |->
     <<Graph(1,
             <<GraphNode("s1", "number", 0, 0, NumberData(RInt(2), TRUE, Null)),
               GraphNode("s2", "number", 0, 50, NumberData(RInt(value), FALSE, inputName)),
               GraphNode("ar", "plus", 50, 0, ArithmeticPorts),
               GraphNode("r", "graphReference", 50, 50, GraphReferenceData(2))>>,
             EdgesOf(pairs)),
       ReferencedGraph(cyclic)>>]

Idle(proj) ==
  /\ project = proj
  /\ pc = "idle"
  /\ calcNodes = <<>>
  /\ nets = <<>>
  /\ x = <<>>
  /\ alpha = AlphaOne
  /\ n = 0
  /\ lastError = Undef
  /\ iterations = 0
  /\ solves = 0
  /\ before = proj
  /\ last = [pc |-> "idle", x |-> <<>>]

InitBuild ==
  \E pairs \in SubsetsUpTo(EndpointPairs, MaxEdges), cyclic \in BOOLEAN,
     inputName \in {Null, "in"}, value \in Values :
    Idle(BuildProject(pairs, cyclic, inputName, value))

(***************************************************************************)
(* Calculate onClick, first part (src/src/nodeTypes.tsx:830-835):          *)
(* buildCalculationGraph, then the prologue of calculate                   *)
(* (src/src/Sidebar.tsx:340-351).  An exception ends the handler.          *)
(***************************************************************************)
\* the unknowns all starting at 1, whatever the values of the nets
xDataOnes(netList, acc) == [i \in 1..Len(acc) |-> ROne]

RECURSIVE xData(_, _)
\* xData[net.id] = net.value for every net
xData(netList, acc) ==
  IF netList = <<>> THEN acc
  ELSE xData(Tail(netList), [acc EXCEPT ![Head(netList).id + 1] = Head(netList).value])

Build ==
  /\ pc \in {"idle", "failed"}
  /\ solves < MaxSolves
  /\ \E built \in {buildCalculationGraph(project, currentGraph(project))} :
         /\ pc' = IF built.threw THEN "failed" ELSE "iterating"
         /\ calcNodes' = built.calcNodes
         /\ nets' = built.nets
         /\ x' = xData(built.nets, [i \in 1..Len(built.nets) |-> Undef])
  /\ alpha' = AlphaOne
  /\ n' = 0
  /\ lastError' = Undef
  /\ iterations' = 0
  /\ solves' = solves + 1
  /\ before' = project
  /\ last' = IF pc = "failed" THEN [pc |-> "failed", x |-> <<>>] ELSE last
  /\ UNCHANGED project

(***************************************************************************)
(* One pass of the while (true) loop of calculate (Sidebar.tsx:353-417).   *)
(***************************************************************************)
SquaredNorm(v) == RSum([i \in 1..Len(v) |-> RMul(v[i], v[i])])

\* every unknown is NaN: the arithmetic of the further passes stays exact
AllNaN(v) == Len(v) > 0 /\ \A i \in 1..Len(v) : IsNaN(v[i])

Iterate ==
  /\ pc = "iterating"
  /\ iterations < MaxIterations \/ AllNaN(x)
  /\ \E eqs \in {Assemble(calcNodes, 1, nets)} :
       LET A == [i \in 1..Len(eqs) |-> eqs[i].row]
           B == [i \in 1..Len(eqs) |-> RNeg(eqs[i].value)]
       IN  \E s \in solve(A, B, Len(nets)) :
             IF ~s.ok
             THEN /\ pc' = "failed"
                  /\ UNCHANGED <<nets, x, alpha, n, lastError>>
             ELSE LET step == [i \in 1..Len(nets) |-> RMul(AlphaRat(alpha), s.d[i])]
                      next == LoopControl(alpha, n, lastError, SquaredNorm(B),
                                          StepIsSmall(SquaredNorm(s.d)))
                  IN  /\ x' = [i \in 1..Len(nets) |-> RAdd(x[i], step[i])]
                      /\ nets' = [i \in 1..Len(nets) |->
                                    [nets[i] EXCEPT !.value = x'[nets[i].id + 1]]]
                      /\ pc' = next.pc
                      /\ alpha' = next.alpha
                      /\ n' = next.n
                      /\ lastError' = next.lastError
  /\ iterations' = iterations + 1
  /\ UNCHANGED <<project, calcNodes, solves, before, last>>

(***************************************************************************)
(* Calculate onClick, last part (src/src/nodeTypes.tsx:837-846): setGraph  *)
(* replaces the data of every node of the current graph by the result of   *)
(* finishCalculation.                                                      *)
(***************************************************************************)
setGraph(proj, modifiedGraph) ==
  [proj EXCEPT !.graphs =
     [i \in 1..Len(proj.graphs) |->
        IF proj.graphs[i].id = proj.currentGraphId THEN modifiedGraph
        ELSE proj.graphs[i]]]

Apply ==
  /\ pc \in {"converged", "aborted"}
  /\ LET Finish(graph) ==
           [graph EXCEPT !.nodes =
              [i \in 1..Len(graph.nodes) |->
                 [graph.nodes[i] EXCEPT !.data =
                    finishCalculation(graph.nodes[i].type,
                                      Get(calcNodes, graph.nodes[i].id), @, nets)]]]
     IN  project' = setGraph(project, Finish(currentGraph(project)))
  /\ pc' = "idle"
  /\ last' = [pc |-> pc, x |-> x]
  /\ UNCHANGED <<calcNodes, nets, x, alpha, n, lastError, iterations, solves, before>>

(***************************************************************************)
(* Stored projects of the solve family: a main diagram of up to three      *)
(* Sources, each wired by its terminal a to nothing, to a port of the      *)
(* arithmetic node, to the reference node or to terminal b of s1; s2, s3   *)
(* and the reference node are present when wired, the arithmetic node      *)
(* whenever the family names its type.                                     *)
(***************************************************************************)
None == <<>>

SourceIds == <<"s1", "s2", "s3">>

ArithmeticTargets(i) ==
  CASE i = 1 -> {<<"ar", "top_0">>, <<"ar", "bottom_0">>}
    [] i = 2 -> {<<"ar", "top_0">>, <<"ar", "top_1">>, <<"ar", "bottom_0">>}
    [] OTHER -> {<<"ar", "bottom_0">>}

Targets(i, arType) ==
  {None, <<"r", "c1">>}
  \cup (IF i > 1 THEN {<<"s1", "b">>} ELSE {})
  \cup (IF arType = "none" THEN {} ELSE ArithmeticTargets(i))

SolveProject(arType, target, value, locked) ==
  LET wired   == FilterSeq([i \in 1..Len(SourceIds) |-> i],
                           {i \in 1..Len(SourceIds) : target[i] # None})
      present == FilterSeq([i \in 1..Len(SourceIds) |-> i],
                           {i \in 1..Len(SourceIds) : i = 1 \/ target[i] # None})
  IN  [currentGraphId |-> 1,
       graphs |->
         <<Graph(1,
                 [j \in 1..Len(present) |->
                    GraphNode(SourceIds[present[j]], "number", 0, 50 * present[j],
                              NumberData(RInt(value[present[j]]), locked[present[j]], Null))]
                 \o (IF arType = "none" THEN <<>>
                     ELSE <<GraphNode("ar", arType, 50, 0,
                                      ArithmeticData([ids |-> <<"top_0", "top_1", "top_2">>,
                                                      nextId |-> 3],
                                                     [ids |-> <<"bottom_0", "bottom_1">>,
                                                      nextId |-> 2]))>>)
                 \o (IF \E i \in 1..Len(SourceIds) : target[i] = <<"r", "c1">>
                     THEN <<GraphNode("r", "graphReference", 50, 50, GraphReferenceData(2))>>
                     ELSE <<>>),
                 [j \in 1..Len(wired) |->
                    GraphEdge(SourceIds[wired[j]], "a",
                              target[wired[j]][1], target[wired[j]][2])]),
           ReferencedGraph(FALSE)>>]

\* a product of two locked factors against a locked result: the damped
\* least-squares iteration of such a project has no exact fixed point and
\* is left out of the family
Unsettled(arType, target, locked) ==
  /\ arType = "mul"
  /\ target = << <<"ar", "top_0">>, <<"ar", "top_1">>, <<"ar", "bottom_0">> >>
  /\ \A i \in 1..Len(SourceIds) : locked[i]

\* beside a Product node the Source s1 may be configured to 0
ZeroValue(arType) == IF arType = "mul" THEN {0} ELSE {}

Init ==
  \E arType \in {"none", "plus", "mul"} :
    \E t1 \in Targets(1, arType), t2 \in Targets(2, arType), t3 \in Targets(3, arType) :
      \E value \in [1..Len(SourceIds) -> Values \cup ZeroValue(arType)],
         locked \in [1..Len(SourceIds) -> BOOLEAN] :
        /\ \A i \in 2..Len(SourceIds) : value[i] \in Values
        /\ ~Unsettled(arType, <<t1, t2, t3>>, locked)
        /\ Idle(SolveProject(arType, <<t1, t2, t3>>, value, locked))

Next == Build \/ Iterate \/ Apply

Spec == Init /\ [][Next]_vars

NextBuild == Build

SpecBuild == InitBuild /\ [][NextBuild]_vars

(***************************************************************************)
(* The loop of calculate on its own (Sidebar.tsx:353-417): every pass      *)
(* draws the residual norm e = 2^(-level) and whether d.norm() < 1e-8, so  *)
(* that every sequence of norms is followed.  The loop runs on one thread  *)
(* without suspending: a pass that can run does run.                       *)
(***************************************************************************)
InitIter ==
  /\ project = SolveProject("none", <<None, None, None>>,
                            [i \in 1..Len(SourceIds) |-> 2],
                            [i \in 1..Len(SourceIds) |-> FALSE])
  /\ pc = "iterating"
  /\ calcNodes = <<>>
  /\ nets = <<>>
  /\ x = <<>>
  /\ alpha = AlphaOne
  /\ n = 0
  /\ lastError = Undef
  /\ iterations = 0
  /\ solves = 1
  /\ before = project
  /\ last = [pc |-> "idle", x |-> <<>>]

Pass ==
  /\ pc = "iterating"
  /\ \E level \in 0..MaxLevel, dLarge \in BOOLEAN :  \* dLarge: d.norm() >= 1e-8
       LET next == LoopControl(alpha, n, lastError, Rat(1, 4 ^ level), ~dLarge)
       IN  /\ pc' = next.pc
           /\ alpha' = next.alpha
           /\ n' = next.n
           /\ lastError' = next.lastError
  /\ iterations' = iterations + 1
  /\ UNCHANGED <<project, calcNodes, nets, x, solves, before, last>>

NextIter == Pass

SpecIter == InitIter /\ [][NextIter]_vars /\ WF_vars(NextIter)

(***************************************************************************)
(* Connectivity of a project, stated on sets: the undirected adjacency of  *)
(* the edges of every inlined diagram level and of the reference wiring.   *)
(***************************************************************************)
NodeSet(graph) == SeqToSet(graph.nodes)

EdgeSet(graph) == SeqToSet(graph.edges)

HasNode(graph, id) == \E nd \in NodeSet(graph) : nd.id = id

\* an edge end as the <<CalcNode id, port>> it stands for (terminal b of a Source is a)
EndOf(graph, prefix, id, handle) ==
  IF handle = "b" /\ \E nd \in NodeSet(graph) : nd.id = id /\ nd.type = "number"
  THEN <<prefix \o id, "a">> ELSE <<prefix \o id, handle>>

ReferenceNodes(graph) == {nd \in NodeSet(graph) : nd.data.type = "graphReference"}

ConnectionNodeSet(graph) == {nd \in NodeSet(graph) : isConnectionNode(nd)}

RECURSIVE Adjacency(_, _, _, _)
Adjacency(proj, prefix, graph, parents) ==
  IF graph.id \in parents THEN {}
  ELSE {{EndOf(graph, prefix, e.source, e.sourceHandle),
         EndOf(graph, prefix, e.target, e.targetHandle)} : e \in EdgeSet(graph)}
       \cup UNION {
         Adjacency(proj, prefix \o r.id \o ".", getGraph(proj, r.data.graphId),
                   parents \cup {graph.id})
         \cup {{<<prefix \o r.id, c.id>>, <<(prefix \o r.id \o ".") \o c.id, "a">>} :
                 c \in ConnectionNodeSet(getGraph(proj, r.data.graphId))}
         : r \in ReferenceNodes(graph)}

RECURSIVE Component(_, _)
\* the ends joined to the ends of S by a path of adj
Component(adj, S) ==
  LET more == S \cup UNION {link \in adj : link \cap S # {}}
  IN  IF more = S THEN S ELSE Component(adj, more)

NetPorts(net) == SeqToSet(net.ports)

SameNet(p, q) == \E k \in 1..Len(nets) : p \in NetPorts(nets[k]) /\ q \in NetPorts(nets[k])

\* how often the pair p is recorded in the nets
Recorded(p) ==
  Cardinality({ki \in (1..Len(nets)) \X (1..Len(Endpoints) * 4) :
                 ki[2] <= Len(nets[ki[1]].ports) /\ nets[ki[1]].ports[ki[2]] = p})

BuildReturned == solves >= 1 /\ pc # "failed"

\* C1: after buildCalculationGraph returns, every (CalcNode, port) pair is
\* recorded in at most one Net, two pairs share a Net iff a path of the
\* adjacency (edges of every inlined level plus reference wiring) joins them,
\* and there are as many Nets as connected components.
C1_NetsAreComponents ==
  BuildReturned =>
    LET adj   == Adjacency(before, "", currentGraph(before), {})
        ends  == UNION adj
        inNet == UNION {NetPorts(nets[k]) : k \in 1..Len(nets)}
    IN  /\ inNet = ends
        /\ \A p \in ends : Recorded(p) = 1
        /\ \A p \in ends : \A q \in ends : SameNet(p, q) <=> q \in Component(adj, {p})
        /\ Len(nets) = Cardinality({Component(adj, {p}) : p \in ends})

\* C1 witness: a build returned two Nets, one of them reaching through the
\* reference node into the referenced diagram.
C1_Witness ==
  /\ BuildReturned
  /\ Len(nets) >= 2
  /\ \E k \in 1..Len(nets) :
       {<<"r", "c1">>, <<"r.c1", "a">>, <<"r.t", "a">>, <<"s1", "a">>} \subseteq NetPorts(nets[k])

Cyclic(proj) ==
  \E r \in ReferenceNodes(currentGraph(proj)) :
    \E rb \in ReferenceNodes(getGraph(proj, r.data.graphId)) :
      rb.data.graphId = proj.currentGraphId

WellFormedEdges(graph) ==
  \A e \in EdgeSet(graph) : HasNode(graph, e.source) /\ HasNode(graph, e.target)

\* C2 (as claimed): for diagrams A and B that refer to each other and both
\* have connection nodes, buildCalculationGraph returns normally with a
\* non-empty set of CalcNodes.
C2_CycleBuilds ==
  ( /\ solves >= 1
    /\ Cyclic(before)
    /\ WellFormedEdges(currentGraph(before))
    /\ ConnectionNodeSet(currentGraph(before)) # {}
    /\ ConnectionNodeSet(getGraph(before, 2)) # {} )
  => (pc # "failed" /\ Len(calcNodes) > 0)

\* C10 (as claimed): an edge naming a node id that is not in the diagram is
\* ignored: the build returns normally, with the nets of the other edges.
C10_DanglingEdgeIgnored ==
  (solves >= 1 /\ ~Cyclic(before) /\ ~WellFormedEdges(currentGraph(before)))
  => pc # "failed"

(***************************************************************************)
(* The iteration cap.                                                      *)
(***************************************************************************)
\* C3 (as claimed): one call of calculate never runs more than the cap of
\* 100 passes of assemble-solve-step.
C3_AtMostCapIterations == iterations <= IterationCap

\* C3 (amended): one call of calculate always terminates, after at most
\* cap + 2 = 102 passes: the counter starts at 0, is tested with n > 100 and
\* is incremented after the test.
C3_LoopEnds == [](iterations <= IterationCap + 2) /\ <>(pc # "iterating")

\* C3 witness: the pass that ends the loop by the counter alone is pass 102.
C3_Witness ==
  pc = "aborted" /\ iterations = IterationCap + 2 /\ n = IterationCap + 1 /\ ~BelowTenth(alpha)

(***************************************************************************)
(* The solve, stated on the stored project and on the ports the Nets       *)
(* record.                                                                 *)
(***************************************************************************)
NodeOf(graph, id) == CHOOSE nd \in NodeSet(graph) : nd.id = id

Wired(p) == \E k \in 1..Len(nets) : p \in NetPorts(nets[k])

\* the value of the Net that records the pair p
ValueAt(p) == nets[CHOOSE k \in 1..Len(nets) : p \in NetPorts(nets[k])].value

\* the system the next pass assembles has a shape error: it is not square,
\* or its Jacobian is singular
ShapeError ==
  LET eqs == Assemble(calcNodes, 1, nets)
  IN  IF Len(eqs) # Len(nets) THEN TRUE
      ELSE Det([i \in 1..Len(eqs) |-> eqs[i].row]) = RZero

\* C4 (as claimed): a pass over at least one net whose system has more or
\* fewer equations than nets, or a singular Jacobian, ends the solve as a
\* failure that changes no net value and no node data.
C4_ShapeErrorFails ==
  [][(pc = "iterating" /\ iterations' = iterations + 1 /\ Len(nets) >= 1 /\ ShapeError)
       => (pc' = "failed" /\ nets' = nets /\ project' = project)]_vars

\* the data finishCalculation is to return for a node of the solved diagram
Finished(nd) ==
  IF nd.type = "number" /\ ~nd.data.locked /\ Wired(<<nd.id, "a">>)
  THEN [nd.data EXCEPT !.value = ValueAt(<<nd.id, "a">>)]
  ELSE nd.data

\* C5: when calculate ended as Converged or Aborted every Net holds the last
\* iterate, and the Calculate action replaces the data of exactly the nodes
\* of the solved diagram, found by their un-prefixed id, by the result of
\* finishCalculation; the edges of the diagram and every other diagram stay.
C5_ApplyWritesBack ==
  [][(pc \in {"converged", "aborted"} /\ pc' = "idle") =>
       /\ \A k \in 1..Len(nets) : nets[k].value = x[nets[k].id + 1]
       /\ project'.currentGraphId = project.currentGraphId
       /\ Len(project'.graphs) = Len(project.graphs)
       /\ \A i \in 1..Len(project.graphs) :
            IF project.graphs[i].id # project.currentGraphId
            THEN project'.graphs[i] = project.graphs[i]
            ELSE /\ project'.graphs[i].id = project.graphs[i].id
                 /\ project'.graphs[i].edges = project.graphs[i].edges
                 /\ Len(project'.graphs[i].nodes) = Len(project.graphs[i].nodes)
                 /\ \A j \in 1..Len(project.graphs[i].nodes) :
                      project'.graphs[i].nodes[j] =
                        [project.graphs[i].nodes[j] EXCEPT !.data =
                           Finished(project.graphs[i].nodes[j])]]_vars

\* C5 witness: an Aborted solve was applied; it moved the value of an
\* unlocked Source of the solved diagram.
C5_Witness ==
  /\ pc = "idle"
  /\ last.pc = "aborted"
  /\ \E nd \in NodeSet(currentGraph(project)) :
       nd.type = "number" /\ ~nd.data.locked
       /\ nd.data.value # NodeOf(currentGraph(before), nd.id).data.value

\* a diagram of two Sources wired terminal to terminal, s1 locked, s2 not
TwoSources(proj) ==
  /\ Len(currentGraph(proj).nodes) = 2
  /\ currentGraph(proj).edges = <<GraphEdge("s2", "a", "s1", "b")>>
  /\ NodeOf(currentGraph(proj), "s1").data.locked
  /\ ~NodeOf(currentGraph(proj), "s2").data.locked

\* C6: for two Sources wired terminal to terminal, one locked at v and one
\* unlocked, calculate ends as Converged (within two passes) with the shared
\* net at v; finishCalculation gives the unlocked Source the value v and
\* leaves the data of the locked one.
C6_LockedValueWins ==
  (solves >= 1 /\ TwoSources(before)) =>
    LET v == NodeOf(currentGraph(before), "s1").data.value
    IN  /\ pc \notin {"failed", "aborted"}
        /\ pc = "iterating" => iterations < 2
        /\ pc = "converged" => Len(nets) = 1 /\ nets[1].value = v /\ x = <<v>>
        /\ pc = "idle" =>
             /\ NodeOf(currentGraph(project), "s2").data =
                  [NodeOf(currentGraph(before), "s2").data EXCEPT !.value = v]
             /\ NodeOf(currentGraph(project), "s1") = NodeOf(currentGraph(before), "s1")

\* C6 witness: the solve of such a diagram was applied and moved the
\* unlocked Source from its configured value to v.
C6_Witness ==
  /\ solves = 1
  /\ pc = "idle"
  /\ TwoSources(before)
  /\ NodeOf(currentGraph(before), "s2").data.value
       # NodeOf(currentGraph(before), "s1").data.value
  /\ NodeOf(currentGraph(project), "s2").data.value
       = NodeOf(currentGraph(before), "s1").data.value

\* the sum of the values at the wired ports among ids of the node "ar"
RECURSIVE PortSum(_)
PortSum(ids) ==
  IF ids = <<>> THEN RZero
  ELSE RAdd(IF Wired(<<"ar", Head(ids)>>) THEN ValueAt(<<"ar", Head(ids)>>) ELSE RZero,
            PortSum(Tail(ids)))

\* C7 (as claimed): whenever calculate ends as Converged on a diagram with a
\* Summation node, the final values of its connected top nets and of its
\* connected bottom nets have the same sum.
C7_SumHolds ==
  (pc = "converged" /\ HasNode(currentGraph(before), "ar")
     /\ NodeOf(currentGraph(before), "ar").type = "plus")
  => PortSum(NodeOf(currentGraph(before), "ar").data.topPorts.ids)
       = PortSum(NodeOf(currentGraph(before), "ar").data.bottomPorts.ids)

\* C8: a solve that starts from the values a Converged solve ended with, on
\* a diagram with at least one net, ends as Converged in its first pass,
\* with alpha still 1 and every net value unchanged.
C8_ResolveEndsAtOnce ==
  [][(/\ pc = "iterating"
      /\ iterations = 0
      /\ iterations' = 1
      /\ solves = 2
      /\ last.pc = "converged"
      /\ Len(nets) >= 1
      /\ x = last.x)
       => (pc' = "converged" /\ alpha' = AlphaOne /\ x' = x /\ nets' = nets)]_vars

\* C8 witness: the second solve of a Product node with tops 2 and 3 and
\* bottom 6 ended as Converged after one pass.
C8_Witness ==
  /\ solves = 2
  /\ pc = "converged"
  /\ iterations = 1
  /\ last.pc = "converged"
  /\ x = last.x
  /\ HasNode(currentGraph(before), "ar")
  /\ NodeOf(currentGraph(before), "ar").type = "mul"
  /\ {nets[k].value : k \in 1..Len(nets)} = {RInt(2), RInt(3), RInt(6)}

Collected(proj) ==
  collectCalcNodes("", currentGraph(proj), CalculationGraphBuildingContext(proj))

\* the CalcNode ids the connection map names, as a key or as a target
ConnectionIds(connections) ==
  {connections[i].key : i \in 1..Len(connections)}
  \cup UNION {UNION {{t.nodeId : t \in SeqToSet(byPort.val)} :
                       byPort \in SeqToSet(connections[i].val)} :
              i \in 1..Len(connections)}

CalcNodeIds(nodeList) == {nodeList[i].key : i \in 1..Len(nodeList)}

\* C11 (as claimed): a reference whose target diagram is already on the
\* recursion stack adds no CalcNode of the target diagram and no entry to the
\* connection map, so every node id the connection map names, as a key or as
\* a target, is the id of an existing CalcNode.
C11_CycleReferenceAddsNothing ==
  (solves >= 1 /\ Cyclic(before) /\ WellFormedEdges(currentGraph(before)))
  => \A ctx \in {Collected(before)} :
       /\ ~ctx.threw
       /\ "r.rb.s1" \notin CalcNodeIds(ctx.calcNodes)
       /\ ConnectionIds(ctx.connections) \subseteq CalcNodeIds(ctx.calcNodes)

(***************************************************************************)
(* Stored projects of the nesting family: the main diagram (id 1) has a    *)
(* locked Source and one or two reference nodes, each to diagram 2 or 3;   *)
(* diagram 2 has a left and a right connection node, a locked Source and,  *)
(* optionally, a reference to diagram 3 or back to diagram 1; diagram 3    *)
(* has a connection node and a locked Source.  Node ids are unique in the  *)
(* project, as the ids the editor hands out are.  Absent = no such node.   *)
(***************************************************************************)
Absent == 0

InnerGraph ==
  Graph(3,
        <<GraphNode("d1", "number", 0, 0, NumberData(RInt(3), FALSE, "in")),
          GraphNode("u", "number", 50, 50, NumberData(RInt(2), TRUE, Null))>>,
        <<GraphEdge("d1", "a", "u", "a")>>)

MiddleGraph(q) ==
  Graph(2,
        <<GraphNode("c1", "number", 0, 50, NumberData(RInt(3), FALSE, "in")),
          GraphNode("c2", "number", 50, 50, NumberData(RInt(2), FALSE, "out")),
          GraphNode("t", "number", 25, 0, NumberData(RInt(2), TRUE, Null))>>
        \o (IF q = Absent THEN <<>>
            ELSE <<GraphNode("q", "graphReference", 25, 50, GraphReferenceData(q))>>),
        <<GraphEdge("c1", "a", "t", "b")>>
        \o (IF q = 3 THEN <<GraphEdge("c2", "a", "q", "d1")>> ELSE <<>>))

\* the ports of a reference node to diagram `target`: its connection nodes' ids
ReferencePorts(id, target) ==
  IF target = 2 THEN << <<id, "c1">>, <<id, "c2">> >>
  ELSE IF target = 3 THEN << <<id, "d1">> >>
  ELSE <<>>

NestEndpoints(t1, t2) ==
  << <<"s1", "a">>, <<"s1", "b">> >> \o ReferencePorts("r1", t1) \o ReferencePorts("r2", t2)

RECURSIVE NestEdges(_, _)
\* the edges of a set of pairs of indices into ends, in lexicographic order
NestEdges(ends, pairs) ==
  IF pairs = {} THEN <<>>
  ELSE LET first == CHOOSE p \in pairs :
                      \A o \in pairs : p[1] < o[1] \/ (p[1] = o[1] /\ p[2] <= o[2])
       IN  <<GraphEdge(ends[first[1]][1], ends[first[1]][2],
                       ends[first[2]][1], ends[first[2]][2])>>
           \o NestEdges(ends, pairs \ {first})

NestProject(t1, t2, q, pairs) ==
  [currentGraphId |-> 1,
   graphs |->
     <<Graph(1,
             <<GraphNode("s1", "number", 0, 0, NumberData(RInt(2), TRUE, Null)),
               GraphNode("r1", "graphReference", 50, 0, GraphReferenceData(t1))>>
             \o (IF t2 = Absent THEN <<>>
                 ELSE <<GraphNode("r2", "graphReference", 50, 50, GraphReferenceData(t2))>>),
             NestEdges(NestEndpoints(t1, t2), pairs)),
       MiddleGraph(q),
       InnerGraph>>]

InitNest ==
  \E t1 \in {2, 3}, t2 \in {Absent, 2, 3}, q \in {Absent, 3, 1} :
    \E pairs \in SubsetsUpTo({p \in (1..Len(NestEndpoints(t1, t2))) \X (1..Len(NestEndpoints(t1, t2))) :
                                p[1] < p[2]}, MaxEdges) :
      Idle(NestProject(t1, t2, q, pairs))

SpecNest == InitNest /\ [][NextBuild]_vars

(***************************************************************************)
(* The node occurrences the recursive walk reaches, each as the path of    *)
(* node ids that leads to it: the ids of the enclosing reference nodes,    *)
(* then its own.                                                           *)
(***************************************************************************)
RECURSIVE Occurrences(_, _, _)
Occurrences(proj, graph, parents) ==
  IF graph.id \in parents THEN {}
  ELSE {<<nd.id>> : nd \in NodeSet(graph)}
       \cup UNION {{<<r.id>> \o path :
                      path \in Occurrences(proj, getGraph(proj, r.data.graphId),
                                           parents \cup {graph.id})} :
                   r \in ReferenceNodes(graph)}

RECURSIVE FlatId(_)
FlatId(path) ==
  IF Len(path) = 1 THEN path[1] ELSE (path[1] \o ".") \o FlatId(Tail(path))

RECURSIVE NodeAt(_, _, _)
\* the node an occurrence path leads to
NodeAt(proj, graph, path) ==
  LET nd == CHOOSE o \in NodeSet(graph) : o.id = path[1]
  IN  IF Len(path) = 1 THEN nd
      ELSE NodeAt(proj, getGraph(proj, nd.data.graphId), Tail(path))

\* C12: the build creates exactly one CalcNode per node occurrence the walk
\* reaches; its key and id are the flattened id of the occurrence, which
\* differs for different occurrences, so no CalcNode overwrites another; it
\* carries the local id and the data of its node.
C12_OneCalcNodePerOccurrence ==
  BuildReturned =>
    \A occ \in {Occurrences(before, currentGraph(before), {})} :
      /\ Len(calcNodes) = Cardinality(occ)
      /\ CalcNodeIds(calcNodes) = {FlatId(path) : path \in occ}
      /\ \A path \in occ : \A other \in occ : FlatId(path) = FlatId(other) => path = other
      /\ \A path \in occ :
           \E i \in 1..Len(calcNodes) :
             /\ calcNodes[i].key = FlatId(path)
             /\ calcNodes[i].val.id = FlatId(path)
             /\ calcNodes[i].val.graphNodeId = path[Len(path)]
             /\ calcNodes[i].val.data = NodeAt(before, currentGraph(before), path).data

\* C12 witness: diagram 2 is inlined twice and diagram 3 below each of them,
\* giving fifteen CalcNodes, d1 of diagram 3 among them under two prefixes.
C12_Witness ==
  /\ BuildReturned
  /\ Len(calcNodes) = 15
  /\ {"r1.q.d1", "r2.q.d1", "r1.c1", "r2.c1"} \subseteq CalcNodeIds(calcNodes)

(***************************************************************************)
(* Seed values of the nets.                                                *)
(***************************************************************************)
\* the node of the project that the CalcNode id `flat` stands for
NodeOfFlatId(proj, flat) ==
  NodeAt(proj, currentGraph(proj),
         CHOOSE path \in Occurrences(proj, currentGraph(proj), {}) : FlatId(path) = flat)

\* the Source terminals among the pairs of a net
SourceTerminals(proj, net) ==
  {p \in NetPorts(net) : NodeOfFlatId(proj, p[1]).type = "number"}

RECURSIVE SumOfValues(_, _)
\* the sum of the configured values of a set of Source terminals
SumOfValues(proj, terminals) ==
  IF terminals = {} THEN RZero
  ELSE LET p == CHOOSE o \in terminals : TRUE
       IN  RAdd(NodeOfFlatId(proj, p[1]).data.value, SumOfValues(proj, terminals \ {p}))

\* C13: the value of every Net the build returns is the arithmetic mean of
\* the configured values of the Source terminals in that Net, each counted
\* once, and 1 when the Net has no Source terminal.
C13_SeedIsMean ==
  BuildReturned =>
    \A k \in 1..Len(nets) :
      \A src \in {SourceTerminals(before, nets[k])} :
        /\ src = {} => nets[k].value = ROne
        /\ src # {} =>
             \A sum \in {SumOfValues(before, src)} :
               /\ ~IsNaN(nets[k].value)
               /\ nets[k].value[1] * sum[2] * Cardinality(src) = sum[1] * nets[k].value[2]

\* C13 witness: one build returned a Net of three Source terminals with mean
\* 7/3 and a Net without Source terminal.
C13_Witness ==
  /\ BuildReturned
  /\ \E k \in 1..Len(nets) :
       /\ Cardinality(SourceTerminals(before, nets[k])) = 3
       /\ nets[k].value = Rat(7, 3)
  /\ \E k \in 1..Len(nets) :
       /\ SourceTerminals(before, nets[k]) = {}
       /\ nets[k].value = ROne

\* no edge of the graph joins a handle to itself
NoHandleLoop(graph) ==
  \A e \in EdgeSet(graph) : e.source # e.target \/ e.sourceHandle # e.targetHandle

\* C14 (as claimed): a port is recorded in a CalcNode's port-to-net map only
\* if it is connected to another (CalcNode, port) pair, so every Net the build
\* returns has at least two distinct pairs, whatever edges between different
\* handles the diagram has.
C14_NetsHaveTwoPorts ==
  (BuildReturned /\ NoHandleLoop(currentGraph(before))) =>
    /\ \A k \in 1..Len(nets) : Cardinality(NetPorts(nets[k])) >= 2
    /\ \A i \in 1..Len(calcNodes) :
         \A j \in 1..Len(calcNodes[i].val.connectedNetsByPort) :
           \E k \in 1..Len(nets) :
             /\ nets[k].id = calcNodes[i].val.connectedNetsByPort[j].val
             /\ NetPorts(nets[k]) \ {<<calcNodes[i].key, calcNodes[i].val.connectedNetsByPort[j].key>>} # {}

(***************************************************************************)
(* The two terminals of a Source.                                          *)
(***************************************************************************)
Touches(e, id) == e.source = id \/ e.target = id

\* the pairs the two ends of an edge of the current graph are recorded as
EndsOf(graph, e) ==
  {EndOf(graph, "", e.source, e.sourceHandle), EndOf(graph, "", e.target, e.targetHandle)}

\* C15: terminals a and b of a Source are one unknown: whatever is wired to
\* terminal a and whatever is wired to terminal b of the same Source is in
\* one Net, and no Source CalcNode has a Net recorded under port b.
C15_SourceTerminalsAreOne ==
  BuildReturned =>
    /\ \A i \in 1..Len(calcNodes) :
         calcNodes[i].val.type = "number" => ~Has(calcNodes[i].val.connectedNetsByPort, "b")
    /\ \A k \in 1..Len(nets) : \A p \in NetPorts(nets[k]) :
         Get(calcNodes, p[1]).type = "number" => p[2] # "b"
    /\ \A g \in {currentGraph(before)} :
         \A s \in {nd \in NodeSet(g) : nd.type = "number"} :
           \A e1 \in EdgeSet(g) : \A e2 \in EdgeSet(g) :
             (Touches(e1, s.id) /\ Touches(e2, s.id)) =>
               \A p \in EndsOf(g, e1) : \A q \in EndsOf(g, e2) : SameNet(p, q)

\* C15 witness: a port is wired to terminal a and another port to terminal b
\* of Source s1, and the build returned them in one Net.
C15_Witness ==
  /\ BuildReturned
  /\ \E e1 \in EdgeSet(currentGraph(before)) : \E e2 \in EdgeSet(currentGraph(before)) :
       /\ e1.source = "s1" /\ e1.sourceHandle = "a" /\ e1.target = "ar"
       /\ e2.source = "s1" /\ e2.sourceHandle = "b" /\ e2.target = "ar"
       /\ e1.targetHandle # e2.targetHandle
       /\ SameNet(<<"ar", e1.targetHandle>>, <<"ar", e2.targetHandle>>)

(***************************************************************************)
(* Reference wiring.                                                       *)
(***************************************************************************)
RECURSIVE StackOf(_, _, _)
\* the ids of the diagrams on the recursion stack when the walk is at `path`
StackOf(proj, graph, path) ==
  IF Len(path) = 1 THEN {graph.id}
  ELSE {graph.id}
       \cup StackOf(proj, getGraph(proj, NodeAt(proj, graph, <<path[1]>>).data.graphId),
                    Tail(path))

\* the occurrences of reference nodes whose target diagram is inlined
InlinedReferences(proj) ==
  {path \in Occurrences(proj, currentGraph(proj), {}) :
     LET nd == NodeAt(proj, currentGraph(proj), path)
     IN  /\ nd.data.type = "graphReference"
         /\ nd.data.graphId \notin StackOf(proj, currentGraph(proj), path)}

\* C16: for every inlined reference node R and every connection node c of
\* the diagram it refers to, port c.id of R's CalcNode and terminal a of the
\* CalcNode <flattened id of R>.<c.id> are in one Net.
C16_ReferencePortsReachInside ==
  BuildReturned =>
    \A path \in InlinedReferences(before) :
      \A c \in ConnectionNodeSet(
                 getGraph(before, NodeAt(before, currentGraph(before), path).data.graphId)) :
        SameNet(<<FlatId(path), c.id>>, <<(FlatId(path) \o ".") \o c.id, "a">>)

\* C16 witness: s1 is wired to port c2 of r1 outside; inside, c2 is wired to
\* port d1 of the nested reference q, whose diagram wires d1 to u: the build
\* returned s1 and r1.q.u in one Net.
C16_Witness ==
  /\ BuildReturned
  /\ <<"r1", "q">> \in InlinedReferences(before)
  /\ SameNet(<<"s1", "a">>, <<"r1", "c2">>)
  /\ SameNet(<<"r1", "c2">>, <<"r1.q", "d1">>)
  /\ SameNet(<<"s1", "a">>, <<"r1.q.u", "a">>)

(***************************************************************************)
(* The loop of calculate on residual norms 100, 99 and 98, whose ratios    *)
(* lie at and on both sides of 0.99 (Sidebar.tsx:404).                     *)
(***************************************************************************)
\* the squared residual norms drawn
ThresholdNorms == {RInt(10000), RInt(9801), RInt(9604)}

PassAtThreshold ==
  /\ pc = "iterating"
  /\ \E eSq \in ThresholdNorms, dLarge \in BOOLEAN :
       LET next == LoopControl(alpha, n, lastError, eSq, ~dLarge)
       IN  /\ pc' = next.pc
           /\ alpha' = next.alpha
           /\ n' = next.n
           /\ lastError' = next.lastError
  /\ iterations' = iterations + 1
  /\ UNCHANGED <<project, calcNodes, nets, x, solves, before, last>>

NextThreshold == PassAtThreshold

SpecThreshold == InitIter /\ [][NextThreshold]_vars

\* alpha is small enough for its numerator and denominator to be machine integers
Representable(a) == a.scale <= 8

\* b = 0.9 * a
NineTenths(a, b) ==
  /\ b.scale = a.scale + 1
  /\ b.digits = TimesDigit(a.digits, 9, 0)
  /\ Representable(a) => AlphaRat(b) = RMul(AlphaRat(a), Rat(9, 10))

\* C17 (as claimed): in every iteration after the first, alpha is multiplied
\* by 0.9 if e >= 0.99 * (previous e), equality included, and is unchanged
\* otherwise; the iteration then ends the loop only by the step norm, by
\* alpha < 0.1 or by the counter.
C17_ShrinkAtEquality ==
  pc = "iterating" =>
    \A eSq \in ThresholdNorms : \A dSmall \in BOOLEAN :
      \A next \in {LoopControl(alpha, n, lastError, eSq, dSmall)} :
        /\ IF lastError # Undef /\ eSq[1] * 10000 * lastError[2] >= lastError[1] * 9801 * eSq[2]
           THEN NineTenths(alpha, next.alpha)
           ELSE next.alpha = alpha
        /\ next.pc # "iterating" => (dSmall \/ BelowTenth(next.alpha) \/ n > IterationCap)

\* C17 (amended): in every iteration after the first, alpha is multiplied by
\* 0.9 if e > 0.99 * (previous e), strictly, and is unchanged otherwise, also
\* at e = 0.99 * (previous e); in the first iteration alpha is unchanged.  The
\* loop goes on after the iteration unless the step norm is below 1e-8, the
\* alpha left by the iteration is below 0.1 or the counter exceeds 100.
C17_ShrinkAboveThreshold ==
  pc = "iterating" =>
    \A eSq \in ThresholdNorms : \A dSmall \in BOOLEAN :
      \A next \in {LoopControl(alpha, n, lastError, eSq, dSmall)} :
        /\ IF lastError # Undef /\ eSq[1] * 10000 * lastError[2] > lastError[1] * 9801 * eSq[2]
           THEN NineTenths(alpha, next.alpha)
           ELSE next.alpha = alpha
        /\ next.pc = "iterating" <=> ~(dSmall \/ BelowTenth(next.alpha) \/ n > IterationCap)

\* C17 witness: the second iteration had e = 99 after e = 100, exactly 0.99
\* times the previous norm, and left alpha at 1; the loop goes on.
C17_Witness ==
  /\ pc = "iterating"
  /\ n = 2
  /\ lastError = RInt(9801)
  /\ alpha = AlphaOne

(***************************************************************************)
(* The ways out of the loop.                                               *)
(***************************************************************************)
\* what one more iteration with residual norm 2^(-level) and step test dSmall leaves
AfterPass(level, dSmall) == LoopControl(alpha, n, lastError, Rat(1, 4 ^ level), dSmall)

\* every iteration that can follow the current state ends the loop as claimed
StopsAsClaimed ==
  pc = "iterating" =>
    \A level \in 0..MaxLevel : \A dSmall \in BOOLEAN :
      \A next \in {AfterPass(level, dSmall)} :
        /\ next.pc \in {"iterating", "converged", "aborted"}
        /\ next.pc = "converged" <=> dSmall
        /\ next.pc = "aborted" <=> (~dSmall /\ (BelowTenth(next.alpha) \/ n > IterationCap))

\* every step is one iteration, taken from the Iterating state
StepIsAnIteration ==
  /\ pc = "iterating"
  /\ iterations' = iterations + 1
  /\ \E level \in 0..MaxLevel : \E dSmall \in BOOLEAN :
       \E next \in {AfterPass(level, dSmall)} :
         /\ pc' = next.pc
         /\ alpha' = next.alpha
         /\ n' = next.n
         /\ lastError' = next.lastError

ConnectedTerminals(graph, id) ==
  {h \in {"a", "b"} :
     \E e \in EdgeSet(graph) : \/ (e.source = id /\ e.sourceHandle = h)
                               \/ (e.target = id /\ e.targetHandle = h)}

\* the equations the CalcNode of a node of the solved diagram adds in a pass
EquationsOf(id) == calculateNode(Get(calcNodes, id), nets)

\* the row that is 1 in the column of the Net of pair p and 0 elsewhere
UnitRow(p) ==
  [i \in 1..Len(nets) |->
     IF i = nets[CHOOSE k \in 1..Len(nets) : p \in NetPorts(nets[k])].id + 1
     THEN ROne ELSE RZero]

\* eq pins the Net of the Source nd to its configured value
Pins(eq, nd) ==
  /\ eq.row = UnitRow(<<nd.id, "a">>)
  /\ eq.value = RSub(ValueAt(<<nd.id, "a">>), nd.data.value)

LockedSources(graph) == {nd \in NodeSet(graph) : nd.type = "number" /\ nd.data.locked}

\* C19 (as claimed): in each iteration a locked Source contributes exactly
\* one equation per connected terminal, with residual (net value - configured
\* value) and a row that is 1 in the net's column and 0 elsewhere, and no
\* equation when no terminal is connected.
C19_OneEquationPerTerminal ==
  pc = "iterating" =>
    \A nd \in LockedSources(currentGraph(before)) :
      \A eqs \in {EquationsOf(nd.id)} :
        /\ Len(eqs) = Cardinality(ConnectedTerminals(currentGraph(before), nd.id))
        /\ \A i \in 1..Len(eqs) : Pins(eqs[i], nd)

\* C19 (amended): in each iteration a locked Source with at least one
\* connected terminal contributes exactly one equation, also when both of its
\* terminals are connected, with residual (net value - configured value) and
\* a row that is 1 in the net's column and 0 elsewhere; a locked Source with
\* no connected terminal contributes no equation.
C19_OneEquationPerSource ==
  pc = "iterating" =>
    \A nd \in LockedSources(currentGraph(before)) :
      \A eqs \in {EquationsOf(nd.id)} :
        /\ Len(eqs) = IF ConnectedTerminals(currentGraph(before), nd.id) = {} THEN 0 ELSE 1
        /\ \A i \in 1..Len(eqs) : Pins(eqs[i], nd)

\* C19 witness: in a pass after the first, locked Source s1 has both
\* terminals connected and adds one equation, whose residual is not 0.
C19_Witness ==
  /\ pc = "iterating"
  /\ iterations >= 1
  /\ \E nd \in LockedSources(currentGraph(before)) :
       /\ nd.id = "s1"
       /\ ConnectedTerminals(currentGraph(before), "s1") = {"a", "b"}
       /\ Len(EquationsOf("s1")) = 1
       /\ EquationsOf("s1")[1].value # RZero

\* the Nets that the terminals of node id are in: those of the ends of the
\* edges of the graph at that node
NetsOfTerminals(graph, id) ==
  {k \in 1..Len(nets) :
     \E e \in EdgeSet(graph) : Touches(e, id) /\ EndsOf(graph, e) \cap NetPorts(nets[k]) # {}}

UnlockedSources(graph) == {nd \in NodeSet(graph) : nd.type = "number" /\ ~nd.data.locked}

\* C20: an unlocked Source contributes an equation (netA - netB, derivatives
\* +1 and -1) only when both of its terminals are connected and lie in two
\* different Nets; with fewer than two distinct connected Nets, both
\* terminals in one Net included, it contributes no equation.
C20_UnlockedSourceEquation ==
  pc = "iterating" =>
    /\ \A nd \in UnlockedSources(currentGraph(before)) :
         \A eqs \in {EquationsOf(nd.id)} :
           \A reached \in {NetsOfTerminals(currentGraph(before), nd.id)} :
             /\ Cardinality(reached) < 2 => eqs = <<>>
             /\ eqs # <<>> =>
                  /\ Len(eqs) = 1
                  /\ ConnectedTerminals(currentGraph(before), nd.id) = {"a", "b"}
                  /\ Cardinality(reached) = 2
                  /\ \E ka \in reached : \E kb \in reached \ {ka} :
                       /\ eqs[1].value = RSub(nets[ka].value, nets[kb].value)
                       /\ eqs[1].row = [i \in 1..Len(nets) |->
                                          IF i = nets[ka].id + 1 THEN ROne
                                          ELSE IF i = nets[kb].id + 1 THEN RNeg(ROne)
                                          ELSE RZero]
    /\ \A i \in 1..Len(calcNodes) :
         (calcNodes[i].val.type = "number" /\ ~calcNodes[i].val.data.locked)
           => calculateNode(calcNodes[i].val, nets) = <<>>

\* C20 witness: in a pass after the first, unlocked Source s1 has terminal a
\* wired to the arithmetic node and terminal b wired to another Source; both
\* are in one Net and s1 adds no equation.
C20_Witness ==
  /\ pc = "iterating"
  /\ iterations >= 1
  /\ \E nd \in UnlockedSources(currentGraph(before)) :
       /\ nd.id = "s1"
       /\ ConnectedTerminals(currentGraph(before), "s1") = {"a", "b"}
       /\ Cardinality(NetsOfTerminals(currentGraph(before), "s1")) = 1
       /\ \E e \in EdgeSet(currentGraph(before)) : e.source = "s1" /\ e.target = "ar"
       /\ EquationsOf("s1") = <<>>

(***************************************************************************)
(* The equations of the arithmetic nodes.                                  *)
(***************************************************************************)
\* the arithmetic node "ar" of the solved diagram is of the given type
HasArithmetic(type) ==
  /\ HasNode(currentGraph(before), "ar")
  /\ NodeOf(currentGraph(before), "ar").type = type

\* the ports of a row of "ar" that are recorded in a Net
ConnectedPorts(ids) == {i \in 1..Len(ids) : Wired(<<"ar", ids[i]>>)}

\* the column of the Net that records the pair p
ColumnOf(p) == nets[CHOOSE k \in 1..Len(nets) : p \in NetPorts(nets[k])].id + 1

\* the row with +1 per connected top port and -1 per connected bottom port,
\* each in the column of the port's Net
SignedPortRow(top, bottom) ==
  [c \in 1..Len(nets) |->
     RInt(Cardinality({i \in ConnectedPorts(top) : ColumnOf(<<"ar", top[i]>>) = c})
          - Cardinality({i \in ConnectedPorts(bottom) : ColumnOf(<<"ar", bottom[i]>>) = c}))]

\* C21 (as claimed): at every iterate the equation of a Summation node with a
\* connected port has residual sum(values of its connected top nets) -
\* sum(values of its connected bottom nets) and a Jacobian row with +1 per
\* connected top port and -1 per connected bottom port, in the column of that
\* port's net.
C21_SumResidual ==
  (pc = "iterating" /\ HasArithmetic("plus")) =>
    \A data \in {NodeOf(currentGraph(before), "ar").data} :
      (ConnectedPorts(data.topPorts.ids) \cup ConnectedPorts(data.bottomPorts.ids) # {}) =>
        \A eqs \in {EquationsOf("ar")} :
          /\ Len(eqs) = 1
          /\ eqs[1].row = SignedPortRow(data.topPorts.ids, data.bottomPorts.ids)
          /\ eqs[1].value = RSub(PortSum(data.topPorts.ids), PortSum(data.bottomPorts.ids))

\* C22 (as claimed): a Summation node none of whose ports is connected to a
\* Net adds no equation: no row of the Jacobian and no entry of the residual
\* vector.
C22_UnconnectedSumAddsNothing ==
  (pc = "iterating" /\ HasArithmetic("plus")) =>
    \A data \in {NodeOf(currentGraph(before), "ar").data} :
      (ConnectedPorts(data.topPorts.ids) \cup ConnectedPorts(data.bottomPorts.ids) = {}) =>
        /\ EquationsOf("ar") = <<>>
        /\ Len(Assemble(calcNodes, 1, nets))
             = Cardinality({nd \in LockedSources(currentGraph(before)) :
                              ConnectedTerminals(currentGraph(before), nd.id) # {}})

(***************************************************************************)
(* Stored projects of the product family: a Product node whose top and     *)
(* bottom rows have zero to two connected ports, each wired to terminal a  *)
(* of Source s1 or s2, and one spare port; the Sources are configured to   *)
(* 0, 2 or 3 and are locked or not.                                        *)
(***************************************************************************)
\* the ways to wire the connected ports of one row
RowWirings == {<<>>} \cup UNION {[1..k -> {"s1", "s2"}] : k \in 1..2}

RowPorts(prefix, wires) ==
  [ids |-> [i \in 1..(Len(wires) + 1) |-> prefix \o ToString(i - 1)],
   nextId |-> Len(wires) + 1]

RowEdges(prefix, wires) ==
  [i \in 1..Len(wires) |-> GraphEdge(wires[i], "a", "ar", prefix \o ToString(i - 1))]

ProductProject(top, bottom, value, locked) ==
  [currentGraphId |-> 1,
   graphs |->
     <<Graph(1,
             <<GraphNode("s1", "number", 0, 0, NumberData(RInt(value[1]), locked[1], Null)),
               GraphNode("s2", "number", 0, 50, NumberData(RInt(value[2]), locked[2], Null)),
               GraphNode("ar", "mul", 50, 0,
                         ArithmeticData(RowPorts("top_", top), RowPorts("bottom_", bottom)))>>,
             RowEdges("top_", top) \o RowEdges("bottom_", bottom)),
       ReferencedGraph(FALSE)>>]

InitProduct ==
  \E top \in RowWirings, bottom \in RowWirings :
    \E value \in [1..2 -> Values \cup {0}], locked \in [1..2 -> BOOLEAN] :
      Idle(ProductProject(top, bottom, value, locked))

SpecProduct == InitProduct /\ [][NextBuild]_vars

RECURSIVE ProductOfPorts(_, _)
\* the product of the values of the Nets of the ports ids[i], i in S
ProductOfPorts(ids, S) ==
  IF S = {} THEN ROne
  ELSE LET i == CHOOSE o \in S : TRUE
       IN  RMul(ValueAt(<<"ar", ids[i]>>), ProductOfPorts(ids, S \ {i}))

\* the partial derivative, with respect to the Net of column c, of the
\* product of the Nets of the connected ports of a row: m times the product
\* over the ports left when one of the m ports of that Net is taken out
RowDerivative(ids, c) ==
  LET atNet == {i \in ConnectedPorts(ids) : ColumnOf(<<"ar", ids[i]>>) = c}
  IN  IF atNet = {} THEN RZero
      ELSE RMul(RInt(Cardinality(atNet)),
                ProductOfPorts(ids, ConnectedPorts(ids) \ {CHOOSE i \in atNet : TRUE}))

\* some Net at a connected port of "ar" has the value 0
ZeroAtProduct(data) ==
  \/ \E i \in ConnectedPorts(data.topPorts.ids) : ValueAt(<<"ar", data.topPorts.ids[i]>>) = RZero
  \/ \E i \in ConnectedPorts(data.bottomPorts.ids) :
       ValueAt(<<"ar", data.bottomPorts.ids[i]>>) = RZero

\* C23: a Product node contributes an equation iff at least one top and at
\* least one bottom port are connected; when no participating Net is 0 its
\* residual is product(top net values) - product(bottom net values) and its
\* row holds, in each Net's column, the exact partial derivative of that
\* residual, also when one Net is at several ports or in both rows.
C23_ProductEquation ==
  (pc = "iterating" /\ HasArithmetic("mul")) =>
    \A data \in {NodeOf(currentGraph(before), "ar").data} :
      \A eqs \in {EquationsOf("ar")} :
        /\ eqs # <<>> <=> (/\ ConnectedPorts(data.topPorts.ids) # {}
                           /\ ConnectedPorts(data.bottomPorts.ids) # {})
        /\ Len(eqs) <= 1
        /\ (eqs # <<>> /\ ~ZeroAtProduct(data)) =>
             /\ eqs[1].value =
                  RSub(ProductOfPorts(data.topPorts.ids, ConnectedPorts(data.topPorts.ids)),
                       ProductOfPorts(data.bottomPorts.ids, ConnectedPorts(data.bottomPorts.ids)))
             /\ eqs[1].row =
                  [c \in 1..Len(nets) |->
                     RSub(RowDerivative(data.topPorts.ids, c),
                          RowDerivative(data.bottomPorts.ids, c))]

\* C23 witness: the Net of s1 (value 3) is at both top ports and the Net of
\* s2 (value 2) at one bottom port: residual 3 * 3 - 2 = 7, derivatives 6
\* and -1.
C23_Witness ==
  /\ pc = "iterating"
  /\ HasArithmetic("mul")
  /\ Len(nets) = 2
  /\ SameNet(<<"ar", "top_0">>, <<"ar", "top_1">>)
  /\ EquationsOf("ar") # <<>>
  /\ EquationsOf("ar")[1].value = RInt(7)
  /\ {EquationsOf("ar")[1].row[c] : c \in 1..2} = {RInt(6), RInt(-1)}

\* C24 (as claimed): when the value of a Net at a connected port of a Product
\* node is exactly 0, the node adds no equation in that iteration, and no NaN
\* or infinite entry enters the Jacobian.
C24_ZeroNetAddsNothing ==
  (pc = "iterating" /\ HasArithmetic("mul")) =>
    \A data \in {NodeOf(currentGraph(before), "ar").data} :
      ZeroAtProduct(data) =>
        /\ EquationsOf("ar") = <<>>
        /\ \A eqs \in {Assemble(calcNodes, 1, nets)} :
             \A i \in 1..Len(eqs) : \A c \in 1..Len(nets) : ~IsNaN(eqs[i].row[c])


(***************************************************************************)
(* Layout family: the current diagram references diagram 2, which holds    *)
(* three number nodes at positions drawn from LayoutXs x LayoutYs; each is *)
(* a connection node when its inputName is set.                            *)
(***************************************************************************)
LayoutXs == {0, 10, 90, 100}

LayoutYs == {0, 50}

LayoutNodeIds == <<"c1", "c2", "c3">>

LayoutGraph(xs, ys, names) ==
  Graph(2,
        [i \in 1..3 |->
           GraphNode(LayoutNodeIds[i], "number", xs[i], ys[i],
                     NumberData(RInt(2), TRUE, names[i]))],
        <<>>)

LayoutProject(xs, ys, names) ==
  [currentGraphId |-> 1,
   graphs |->
     <<Graph(1,
             <<GraphNode("s1", "number", 0, 0, NumberData(RInt(2), TRUE, Null)),
               GraphNode("r", "graphReference", 50, 50, GraphReferenceData(2))>>,
             <<GraphEdge("s1", "a", "r", "c1")>>),
       LayoutGraph(xs, ys, names)>>]

InitLayout ==
  \E xs \in [1..3 -> LayoutXs], ys \in [1..3 -> LayoutYs],
     names \in [1..3 -> {Null, "in"}] :
    Idle(LayoutProject(xs, ys, names))

SpecLayout == InitLayout /\ [][NextBuild]_vars

ConnectionNodesOf(graph) == {node \in SeqToSet(graph.nodes) : isConnectionNode(node)}

\* how often the node is in the list
TimesIn(list, node) == Cardinality({i \in 1..Len(list) : list[i] = node})

AscendingY(list) ==
  \A i, j \in 1..Len(list) : i < j => list[i].position.y <= list[j].position.y

\* twice the median of the horizontal positions of the nodes (a set of nodes
\* with distinct ids): the middle one of an odd number, the mean of the two
\* middle ones of an even number
MedianTwice(nodes) ==
  LET below(v) == Cardinality({node \in nodes : node.position.x < v})
      upTo(v)  == Cardinality({node \in nodes : node.position.x <= v})
      \* the k-th smallest position, k in 1..Cardinality(nodes)
      kth(k)   == CHOOSE v \in {node.position.x : node \in nodes} :
                    below(v) < k /\ k <= upTo(v)
      count    == Cardinality(nodes)
  IN  IF count % 2 = 1 THEN 2 * kth((count + 1) \div 2)
      ELSE kth(count \div 2) + kth(count \div 2 + 1)

MidpointTwice(nodes) ==
  Max({node.position.x : node \in nodes}) + Min({node.position.x : node \in nodes})

\* the two lists hold every connection node once, split at twice the
\* threshold, each ordered by ascending vertical position
SplitAt(graph, lists, thresholdTwice) ==
  /\ \A node \in ConnectionNodesOf(graph) :
       /\ TimesIn(lists[1], node) + TimesIn(lists[2], node) = 1
       /\ TimesIn(lists[1], node) = 1 <=> 2 * node.position.x <= thresholdTwice
  /\ SeqToSet(lists[1]) \cup SeqToSet(lists[2]) \subseteq ConnectionNodesOf(graph)
  /\ AscendingY(lists[1])
  /\ AscendingY(lists[2])

\* C25 (as stated): getConnectionNodes returns two lists holding every
\* connection node of the diagram exactly once, the left list the nodes whose
\* horizontal position is at or below the median of the connection nodes'
\* horizontal positions, the right list the others, each list by ascending
\* vertical position; no connection node gives two empty lists.
C25_SplitAtMedian ==
  \A graph \in {getGraph(project, 2)} :
    \A lists \in {getConnectionNodes(graph)} :
      IF ConnectionNodesOf(graph) = {} THEN lists = <<<<>>, <<>>>>
      ELSE SplitAt(graph, lists, MedianTwice(ConnectionNodesOf(graph)))

\* C25 (amended): getConnectionNodes returns two lists holding every
\* connection node of the diagram exactly once, the left list the nodes whose
\* horizontal position is at or below the midpoint between the smallest and
\* the largest horizontal position of the connection nodes, the right list the
\* others, each list by ascending vertical position; no connection node gives
\* two empty lists.
C25_SplitAtMidpoint ==
  \A graph \in {getGraph(project, 2)} :
    \A lists \in {getConnectionNodes(graph)} :
      IF ConnectionNodesOf(graph) = {} THEN lists = <<<<>>, <<>>>>
      ELSE SplitAt(graph, lists, MidpointTwice(ConnectionNodesOf(graph)))

\* a build has inlined diagram 2 with three connection nodes, two of them on
\* the right in the reverse of their stored order, and the median of the
\* positions is not their midpoint
C25_Witness ==
  /\ solves >= 1
  /\ \E lists \in {getConnectionNodes(getGraph(project, 2))} :
       /\ Len(lists[1]) = 1
       /\ Len(lists[2]) = 2
       /\ lists[2][1].id = "c3"
       /\ lists[2][1].position.y < lists[2][2].position.y
  /\ MedianTwice(ConnectionNodesOf(getGraph(project, 2)))
       # MidpointTwice(ConnectionNodesOf(getGraph(project, 2)))


RECURSIVE NinePowDigits(_)
\* the decimal digits of 9^k, lowest first
NinePowDigits(k) ==
  IF k = 0 THEN <<1>> ELSE TimesDigit(NinePowDigits(k - 1), 9, 0)

\* alpha = 0.9^k for the number k of shrinks so far, k <= 22; no shrink in
\* the first iteration; the loop does not go on with alpha < 0.1
AlphaIsPowerOfNineTenths ==
  /\ alpha.scale \in 0..22
  /\ alpha.digits = NinePowDigits(alpha.scale)
  /\ Representable(alpha) => AlphaRat(alpha) = RDiv(RInt(9 ^ alpha.scale), RInt(10 ^ alpha.scale))
  /\ iterations <= 1 => alpha = AlphaOne
  /\ pc = "iterating" => ~BelowTenth(alpha)
  /\ BelowTenth(alpha) <=> alpha.scale = 22

\* an iteration leaves alpha alone or multiplies it by 0.9, and one that
\* takes alpha below 0.1 ends the loop
AlphaNeverIncreases ==
  /\ alpha' = alpha \/ NineTenths(alpha, alpha')
  /\ pc = "iterating"
  /\ BelowTenth(alpha') => pc' \in {"aborted", "converged"}

\* C26: throughout calculate, alpha starts at 1, never increases, is always
\* 0.9^k for the number k of shrinks so far, is never shrunk in the first
\* iteration, and is shrunk at most 22 times in one solve: the loop stops in
\* the iteration in which alpha first falls below 0.1.
C26_AlphaInvariant == []AlphaIsPowerOfNineTenths /\ [][AlphaNeverIncreases]_vars

\* a solve that shrank alpha 22 times and stopped because alpha < 0.1
C26_Witness ==
  /\ pc = "aborted"
  /\ alpha.scale = 22
  /\ BelowTenth(alpha)
  /\ n <= IterationCap


\* the ids of the nets are their indices 0..n-1
NetIdsAreIndices == \A i \in 1..Len(nets) : nets[i].id = i - 1

\* the value of every net is the entry of x at its id
NetValuesAreX ==
  /\ Len(x) = Len(nets)
  /\ \A i \in 1..Len(nets) :
       /\ nets[i].id + 1 \in 1..Len(x)
       /\ nets[i].value = x[nets[i].id + 1]

\* the net a node behaviour reads at a port is the net of that id
PortsReadCurrentNets ==
  \A i \in 1..Len(calcNodes) :
    \A j \in 1..Len(calcNodes[i].val.connectedNetsByPort) :
      \A port \in {calcNodes[i].val.connectedNetsByPort[j].key} :
        /\ PortNet(calcNodes[i].val, nets, port).id
             = calcNodes[i].val.connectedNetsByPort[j].val
        /\ PortNet(calcNodes[i].val, nets, port).value
             = x[calcNodes[i].val.connectedNetsByPort[j].val + 1]

\* C27: each Net's id is its index in the returned net list (0..n-1 without
\* gaps), and at the start of every equation-assembly pass of calculate the
\* value of each Net equals the entry of x at that id, so the node behaviours
\* compute from the current iterate.
C27_NetsFollowX ==
  /\ BuildReturned => NetIdsAreIndices
  /\ pc = "iterating" => NetValuesAreX /\ PortsReadCurrentNets

\* a pass is about to start after a step that moved the value of a net, in
\* a system of two nets or more
C27_Witness ==
  /\ pc = "iterating"
  /\ iterations >= 1
  /\ Len(nets) >= 2
  /\ \E i \in 1..Len(nets) : nets[i].value \notin {ROne, RInt(2), RInt(3)}
  /\ NetValuesAreX


GraphIds(proj) == {proj.graphs[i].id : i \in 1..Len(proj.graphs)}

\* a call of collectCalcNodes that returns leaves the in-progress set as it
\* found it, whatever the diagram and the set at entry
ReturnsWithSetAtEntry(proj) ==
  \A i \in 1..Len(proj.graphs) :
    \A parents \in SUBSET GraphIds(proj) :
      \A result \in {collectCalcNodes("p.", proj.graphs[i],
                        [CalculationGraphBuildingContext(proj)
                           EXCEPT !.parentGraphIds = parents])} :
        ~result.threw => result.parentGraphIds = parents

\* the occurrences of reference nodes
ReferencePaths(proj) ==
  {path \in Occurrences(proj, currentGraph(proj), {}) :
     NodeAt(proj, currentGraph(proj), path).data.type = "graphReference"}

\* the ids of the diagrams in progress when the walk is at the occurrence
GraphsAlong(proj, path) ==
  {proj.currentGraphId}
    \cup {NodeAt(proj, currentGraph(proj), SubSeq(path, 1, k)).data.graphId :
            k \in 1..(Len(path) - 1)}

IsPrefix(p1, p2) == Len(p1) <= Len(p2) /\ SubSeq(p2, 1, Len(p1)) = p1

\* the diagram the reference occurrence refers to
TargetOf(proj, path) == getGraph(proj, NodeAt(proj, currentGraph(proj), path).data.graphId)

\* C28: the set of in-progress diagram ids is a stack: when a call of
\* collectCalcNodes returns, the set equals its value at entry; therefore a
\* diagram referenced by two different reference nodes that are not nested in
\* each other is inlined once per reference, each time under its own prefix.
C28_InProgressSetIsStack ==
  /\ ReturnsWithSetAtEntry(project)
  /\ BuildReturned =>
       \A p1, p2 \in ReferencePaths(before) :
         ( /\ p1 # p2
           /\ ~IsPrefix(p1, p2)
           /\ ~IsPrefix(p2, p1)
           /\ TargetOf(before, p1) = TargetOf(before, p2)
           /\ TargetOf(before, p1).id \notin GraphsAlong(before, p1)
           /\ TargetOf(before, p2).id \notin GraphsAlong(before, p2) )
         => \A nd \in NodeSet(TargetOf(before, p1)) :
              /\ FlatId(p1 \o <<nd.id>>) # FlatId(p2 \o <<nd.id>>)
              /\ \A path \in {p1, p2} :
                   \E i \in 1..Len(calcNodes) :
                     /\ calcNodes[i].key = FlatId(path \o <<nd.id>>)
                     /\ calcNodes[i].val.data = nd.data

\* a build has inlined diagram 2 under r1 and under r2 and diagram 3 under the
\* reference q of each, and the walk has returned with an empty set
C28_Witness ==
  /\ BuildReturned
  /\ {<<"r1">>, <<"r2">>, <<"r1", "q">>, <<"r2", "q">>} \subseteq ReferencePaths(before)
  /\ TargetOf(before, <<"r1">>) = TargetOf(before, <<"r2">>)
  /\ {"r1.t", "r2.t", "r1.q.u", "r2.q.u"} \subseteq CalcNodeIds(calcNodes)
  /\ Collected(before).parentGraphIds = {}


(***************************************************************************)
(* Editing the edges of a diagram (src/src/nodeTypes.tsx:720-765): every   *)
(* handler changes graph.edges and passes the diagram through              *)
(* afterGraphUpdate (lines 444-491) before setGraph stores it.             *)
(***************************************************************************)
\* edges the edited diagram holds at most
MaxEditEdges == 2
\* port ids are handed out up to <prefix>_MaxPortId
MaxPortId == 4

\* edge.source + "=>" + edge.sourceHandle
PortKey(nodeId, handle) == (nodeId \o "=>") \o handle

usedPorts(graph) ==
  UNION {{PortKey(e.source, e.sourceHandle), PortKey(e.target, e.targetHandle)} :
           e \in SeqToSet(graph.edges)}

\* ports.ids.filter((portId, idx) => idx == last || usedPorts.has(...))
KeptPorts(ids, nodeId, used) ==
  LET F[i \in 0..Len(ids)] ==
        IF i = 0 THEN <<>>
        ELSE IF i = Len(ids) \/ PortKey(nodeId, ids[i]) \in used
             THEN Append(F[i - 1], ids[i]) ELSE F[i - 1]
  IN  F[Len(ids)]

\* updatePorts that does not advance nextId
updatePortsReusingId(ports, nodeId, prefix, used) ==
  LET kept == KeptPorts(ports.ids, nodeId, used)
  IN  IF Len(kept) = 0 \/ PortKey(nodeId, kept[Len(kept)]) \in used
      THEN [ids |-> Append(ports.ids, (prefix \o "_") \o ToString(ports.nextId)),
            nextId |-> ports.nextId]
      ELSE [ids |-> kept, nextId |-> ports.nextId]

\* lines 451-470; a port is added to the row as it was before the filter
updatePorts(ports, nodeId, prefix, used) ==
  LET kept == KeptPorts(ports.ids, nodeId, used)
  IN  IF Len(kept) = 0 \/ PortKey(nodeId, kept[Len(kept)]) \in used
      THEN [ids |-> Append(ports.ids, (prefix \o "_") \o ToString(ports.nextId)),
            nextId |-> ports.nextId + 1]
      ELSE [ids |-> kept, nextId |-> ports.nextId]

afterGraphUpdate(graph) ==
  [graph EXCEPT !.nodes =
     [i \in 1..Len(graph.nodes) |->
        IF graph.nodes[i].data.type = "arithmetic"
        THEN [graph.nodes[i] EXCEPT
                !.data.topPorts =
                   updatePorts(graph.nodes[i].data.topPorts, graph.nodes[i].id,
                               "top", usedPorts(graph)),
                !.data.bottomPorts =
                   updatePorts(graph.nodes[i].data.bottomPorts, graph.nodes[i].id,
                               "bottom", usedPorts(graph))]
        ELSE graph.nodes[i]]]

\* newArithmeticNodeData
newArithmeticNodeData ==
  ArithmeticData([ids |-> <<"top_0">>, nextId |-> 1],
                 [ids |-> <<"bottom_0">>, nextId |-> 1])

\* a diagram with two Sources and a new Summation node, no edge yet
EditProject ==
  [currentGraphId |-> 1,
   graphs |->
     <<Graph(1,
             <<GraphNode("s1", "number", 0, 0, NumberData(RInt(2), TRUE, Null)),
               GraphNode("s2", "number", 0, 50, NumberData(RInt(3), FALSE, Null)),
               GraphNode("ar", "plus", 50, 0, newArithmeticNodeData)>>,
             <<>>)>>]

InitEdit == Idle(EditProject)

ArithmeticNodes(graph) == {nd \in NodeSet(graph) : nd.data.type = "arithmetic"}

\* the handles the diagram shows: "a" of every number node and the ports of
\* both rows of every arithmetic node
Handles(graph) ==
  {<<nd.id, "a">> : nd \in {o \in NodeSet(graph) : o.data.type = "number"}}
    \cup UNION {{<<nd.id, p>> : p \in SeqToSet(nd.data.topPorts.ids)
                                       \cup SeqToSet(nd.data.bottomPorts.ids)} :
                nd \in ArithmeticNodes(graph)}

\* addEdge(connection, edges): an edge that exists already is not added
addEdge(connection, edges) ==
  IF connection \in SeqToSet(edges) THEN edges ELSE Append(edges, connection)

\* updateEdge(oldEdge, newConnection, edges)
updateEdge(oldEdge, newConnection, edges) ==
  IF oldEdge \notin SeqToSet(edges) THEN edges
  ELSE Append(FilterSeq(edges, SeqToSet(edges) \ {oldEdge}), newConnection)

\* no row has used up the port ids the exploration follows
RowsBelowCap(graph) ==
  \A nd \in ArithmeticNodes(graph) :
    nd.data.topPorts.nextId < MaxPortId /\ nd.data.bottomPorts.nextId < MaxPortId

\* the connections a drag between two handles can make
Connections(graph) ==
  {GraphEdge(s[1], s[2], t[1], t[2]) : s \in Handles(graph), t \in Handles(graph)}
    \ {GraphEdge(s[1], s[2], s[1], s[2]) : s \in Handles(graph)}

\* the connections that move one end of the edge to another handle
Moves(graph, edge) ==
  {c \in Connections(graph) :
     /\ c # edge
     /\ \/ c.source = edge.source /\ c.sourceHandle = edge.sourceHandle
        \/ c.target = edge.target /\ c.targetHandle = edge.targetHandle}

\* the diagrams the three handlers hand to afterGraphUpdate
ConnectEdits(graph) ==
  {[graph EXCEPT !.edges = addEdge(c, graph.edges)] : c \in Connections(graph)}

ReconnectEdits(graph) ==
  UNION {{[graph EXCEPT !.edges = updateEdge(e, c, graph.edges)] : c \in Moves(graph, e)} :
         e \in EdgeSet(graph)}

DisconnectEdits(graph) ==
  {[graph EXCEPT !.edges = FilterSeq(graph.edges, EdgeSet(graph) \ {e})] :
     e \in EdgeSet(graph)}

EditStep(edited) ==
  /\ pc = "idle"
  /\ project' = setGraph(project, afterGraphUpdate(edited))
  /\ UNCHANGED <<pc, calcNodes, nets, x, alpha, n, lastError, iterations, solves,
                 before, last>>

\* onConnect
Connect ==
  /\ RowsBelowCap(currentGraph(project))
  /\ Len(currentGraph(project).edges) < MaxEditEdges
  /\ \E edited \in ConnectEdits(currentGraph(project)) : EditStep(edited)

\* onEdgeUpdate: one end of an edge was dropped on another handle
Reconnect ==
  /\ RowsBelowCap(currentGraph(project))
  /\ \E edited \in ReconnectEdits(currentGraph(project)) : EditStep(edited)

\* onEdgeUpdateEnd after a drag that reconnected nothing
Disconnect ==
  /\ RowsBelowCap(currentGraph(project))
  /\ \E edited \in DisconnectEdits(currentGraph(project)) : EditStep(edited)

NextEdit == Connect \/ Reconnect \/ Disconnect

SpecEdit == InitEdit /\ [][NextEdit]_vars


\* the two port rows of an arithmetic node, each with its prefix
RowsOf(nd) == {[ports |-> nd.data.topPorts, prefix |-> "top"],
               [ports |-> nd.data.bottomPorts, prefix |-> "bottom"]}

RowIsUsed(graph, nd, portId) == PortKey(nd.id, portId) \in usedPorts(graph)

\* the ids of the row differ pairwise and carry numbers below nextId
RowIdsDistinct(row) ==
  /\ \A i, j \in 1..Len(row.ports.ids) : i # j => row.ports.ids[i] # row.ports.ids[j]
  /\ SeqToSet(row.ports.ids)
       \subseteq {(row.prefix \o "_") \o ToString(k) : k \in 0..(row.ports.nextId - 1)}

\* what afterGraphUpdate made of a row: no used port is gone, nextId has not
\* decreased, and a port that is new carries the old nextId, which is used up
RowUpdateKeepsUsed(graph, nd, old, new) ==
  /\ \A p \in SeqToSet(old.ids) : RowIsUsed(graph, nd, p) => p \in SeqToSet(new.ids)
  /\ new.nextId >= old.nextId
  /\ \A p \in SeqToSet(new.ids) \ SeqToSet(old.ids) :
       /\ p = (IF new = nd.data.topPorts THEN "top_" ELSE "bottom_") \o ToString(old.nextId)
       /\ new.nextId = old.nextId + 1

EditsOf(graph) == ConnectEdits(graph) \cup ReconnectEdits(graph) \cup DisconnectEdits(graph)

UpdateKeepsUsedPorts(edited, updated) ==
  /\ updated.edges = edited.edges
  /\ updated.id = edited.id
  /\ Len(updated.nodes) = Len(edited.nodes)
  /\ \A i \in 1..Len(edited.nodes) :
       IF edited.nodes[i].data.type # "arithmetic"
       THEN updated.nodes[i] = edited.nodes[i]
       ELSE /\ updated.nodes[i].id = edited.nodes[i].id
            /\ updated.nodes[i].type = edited.nodes[i].type
            /\ updated.nodes[i].position = edited.nodes[i].position
            /\ RowUpdateKeepsUsed(edited, updated.nodes[i],
                                  edited.nodes[i].data.topPorts,
                                  updated.nodes[i].data.topPorts)
            /\ RowUpdateKeepsUsed(edited, updated.nodes[i],
                                  edited.nodes[i].data.bottomPorts,
                                  updated.nodes[i].data.bottomPorts)
            /\ \A row \in RowsOf(updated.nodes[i]) : RowIdsDistinct(row)

\* C29: afterGraphUpdate never removes from a port row of an arithmetic node a
\* port that is an endpoint of an edge of the diagram, leaves edges and
\* non-arithmetic nodes unchanged, and keeps the port ids of a row pairwise
\* distinct after any sequence of connect, reconnect and disconnect
\* operations: nextId never decreases and is never reused.
C29_UsedPortsStay ==
  /\ \A nd \in ArithmeticNodes(currentGraph(project)) :
       \A row \in RowsOf(nd) : RowIdsDistinct(row)
  /\ \A edited \in EditsOf(currentGraph(project)) :
       UpdateKeepsUsedPorts(edited, afterGraphUpdate(edited))

\* after a connect to top_0, a connect to top_1 and a disconnect of the first,
\* the row has lost top_0 and holds the used top_1 and the spare top_2
C29_Witness ==
  \E nd \in ArithmeticNodes(currentGraph(project)) :
    /\ nd.data.topPorts = [ids |-> <<"top_1", "top_2">>, nextId |-> 3]
    /\ RowIsUsed(currentGraph(project), nd, "top_1")
    /\ Len(currentGraph(project).edges) = 1

\* C30: after every afterGraphUpdate, each port row of each arithmetic node is
\* non-empty, its last port has no edge, and every port before the last is an
\* endpoint of some edge, after any sequence of connect, reconnect and
\* disconnect operations starting from a new node with rows [top_0] and
\* [bottom_0].
C30_OneSparePortLast ==
  \A graph \in {currentGraph(project)} :
    \A nd \in ArithmeticNodes(graph) :
      \A row \in RowsOf(nd) :
        /\ Len(row.ports.ids) >= 1
        /\ \A i \in 1..Len(row.ports.ids) :
             RowIsUsed(graph, nd, row.ports.ids[i]) <=> i < Len(row.ports.ids)

====
